---- MODULE Spec2Model ----
(***************************************************************************)
(* Traffic flow simulation engine of cloud-simulator (MainScene.ts).       *)
(*                                                                         *)
(* The engine computes with IEEE doubles.  The model computes with exact   *)
(* rationals <<n, d>> (d > 0, lowest terms), i.e. the real-number meaning  *)
(* of the arithmetic, so that equalities such as conservation are checked  *)
(* without rounding noise.                                                 *)
(***************************************************************************)
EXTENDS Integers, Sequences, FiniteSets, TLC

VARIABLES
    nodes,              \* this.nodes: sequence of NodeData records, in creation order
    connections,        \* this.connections: sequence of [sourceId, targetId]
    adjacencyMap,       \* this.adjacencyMap: id -> sequence of child ids
    simBufferCurrent,   \* this.simBufferCurrent: id -> TrafficMix
    simBufferNext,      \* this.simBufferNext: id -> TrafficMix
    metrics,            \* this.metrics
    currentBaseTraffic, \* this.currentBaseTraffic
    isUnderAttack,      \* this.isUnderAttack
    sim,                \* locals of runTrafficSimulation that live across rounds
    last,               \* locals of the loop body for the node processed last
    pc,                 \* position inside runTrafficSimulation ("idle" outside)
    ticks,              \* number of settlement passes started so far
    scene,              \* the timers and selections of the scene, position inside update
    emitted             \* what the editor operation called last reported to its callbacks

vars == <<nodes, connections, adjacencyMap, simBufferCurrent, simBufferNext,
          metrics, currentBaseTraffic, isUnderAttack, sim, last, pc, ticks,
          scene, emitted>>

-----------------------------------------------------------------------------
(* Exact rational arithmetic.                                              *)

RECURSIVE GCD(_, _)
GCD(a, b) == IF b = 0 THEN a ELSE GCD(b, a % b)

Abs(x) == IF x < 0 THEN -x ELSE x

Norm(n, d) ==
    IF n = 0 THEN <<0, 1>>
    ELSE LET g == GCD(Abs(n), Abs(d))
             s == IF d < 0 THEN -1 ELSE 1
         IN  <<s * (n \div g), s * (d \div g)>>

R(n) == <<n, 1>>
Frac(n, d) == Norm(n, d)

RAdd(a, b) ==
    IF a[1] = 0 THEN b
    ELSE IF b[1] = 0 THEN a
    ELSE IF a[2] = b[2] THEN Norm(a[1] + b[1], a[2])
    ELSE LET g == GCD(a[2], b[2])
         IN  Norm(a[1] * (b[2] \div g) + b[1] * (a[2] \div g), a[2] * (b[2] \div g))

RNeg(a) == <<-a[1], a[2]>>
RSub(a, b) == RAdd(a, RNeg(b))

RMul(a, b) ==
    IF a[1] = 0 \/ b[1] = 0 THEN <<0, 1>>
    ELSE LET g1 == GCD(Abs(a[1]), b[2])
             g2 == GCD(Abs(b[1]), a[2])
         IN  <<(a[1] \div g1) * (b[1] \div g2), (a[2] \div g2) * (b[2] \div g1)>>

RInv(a) == IF a[1] < 0 THEN <<-a[2], -a[1]>> ELSE <<a[2], a[1]>>
RDiv(a, b) == RMul(a, RInv(b))

\* n1/d1 < n2/d2 for positive d1, d2, by comparing the continued fractions
\* (no cross-multiplication, so no large intermediate products).
RECURSIVE FracLt(_, _, _, _)
FracLt(n1, d1, n2, d2) ==
    LET q1 == n1 \div d1
        q2 == n2 \div d2
        r1 == n1 % d1
        r2 == n2 % d2
    IN  IF q1 # q2 THEN q1 < q2
        ELSE IF r2 = 0 THEN FALSE
        ELSE IF r1 = 0 THEN TRUE
        ELSE FracLt(d2, r2, d1, r1)

RLt(a, b) == IF a[2] = b[2] THEN a[1] < b[1] ELSE FracLt(a[1], a[2], b[1], b[2])
RLe(a, b) == a = b \/ RLt(a, b)
RGt(a, b) == RLt(b, a)
RGe(a, b) == RLe(b, a)
RMin(a, b) == IF RLt(b, a) THEN b ELSE a
RMax(a, b) == IF RLt(a, b) THEN b ELSE a

\* Math.floor: \div rounds toward minus infinity for a positive divisor.
RFloor(a) == a[1] \div a[2]

\* Math.round: floor(x + 0.5).
RRound(a) == RFloor(RAdd(a, <<1, 2>>))

Zero == <<0, 1>>
One == <<1, 1>>

RECURSIVE RSumSeq(_)
RSumSeq(s) == IF s = <<>> THEN Zero ELSE RAdd(Head(s), RSumSeq(Tail(s)))

-----------------------------------------------------------------------------
(* Enumerations (types.ts) and static configuration (constants.ts).        *)

INTERNET == "INTERNET"
WAF == "WAF"
FIREWALL == "FIREWALL"
LOAD_BALANCER == "LOAD_BALANCER"
API_GATEWAY == "API_GATEWAY"
CDN == "CDN"
COMPUTE == "COMPUTE"
DATABASE == "DATABASE"
DATABASE_NOSQL == "DATABASE_NOSQL"
STORAGE == "STORAGE"
CACHE == "CACHE"
AUTOSCALING_GROUP == "AUTOSCALING_GROUP"

NodeType == {INTERNET, WAF, FIREWALL, LOAD_BALANCER, API_GATEWAY, CDN, COMPUTE,
             DATABASE, DATABASE_NOSQL, STORAGE, CACHE, AUTOSCALING_GROUP}

\* RequestType, in the order the code sums and copies the six components.
RequestType == <<"WEB", "DB_READ", "DB_WRITE", "DB_SEARCH", "STATIC", "ATTACK">>
ReqTypes == {RequestType[k] : k \in 1..Len(RequestType)}
LegitTypes == ReqTypes \ {"ATTACK"}
DynamicTypes == ReqTypes \ {"STATIC"}

ResponseCode == {"200", "403", "429", "500", "503"}

PRIMARY == "PRIMARY"
REPLICA == "REPLICA"

ROUND_ROBIN == "ROUND_ROBIN"
WEIGHTED_ROUND_ROBIN == "WEIGHTED_ROUND_ROBIN"
RANDOM == "RANDOM"
LEAST_CONNECTION == "LEAST_CONNECTION"
WEIGHTED_LEAST_CONNECTION == "WEIGHTED_LEAST_CONNECTION"
LEAST_RESPONSE_TIME == "LEAST_RESPONSE_TIME"

LoadBalancerAlgo == {ROUND_ROBIN, WEIGHTED_ROUND_ROBIN, RANDOM, LEAST_CONNECTION,
                     WEIGHTED_LEAST_CONNECTION, LEAST_RESPONSE_TIME}

\* "none" stands for an undefined optional field.
NONE == "none"

COMPUTE_TIERS ==
    [T1 |-> [capex |-> 50, opex |-> 1, capacity |-> 100],
     T2 |-> [capex |-> 150, opex |-> 5, capacity |-> 500],
     T3 |-> [capex |-> 400, opex |-> 15, capacity |-> 2500],
     T4 |-> [capex |-> 1200, opex |-> 50, capacity |-> 10000],
     T5 |-> [capex |-> 5000, opex |-> 200, capacity |-> 50000]]

CDN_TIERS ==
    [EDGE_BASIC |-> [maxHitRate |-> <<3, 4>>, capacity |-> 5000, capex |-> 200, opex |-> 8],
     EDGE_PRO |-> [maxHitRate |-> <<9, 10>>, capacity |-> 25000, capex |-> 800, opex |-> 25],
     EDGE_ENTERPRISE |-> [maxHitRate |-> <<99, 100>>, capacity |-> 100000, capex |-> 2500,
                          opex |-> 80]]

TRAFFIC_MIX ==
    [WEB |-> <<3, 10>>, DB_READ |-> <<7, 20>>, DB_WRITE |-> <<1, 10>>,
     DB_SEARCH |-> <<1, 10>>, STATIC |-> <<3, 20>>, ATTACK |-> <<0, 1>>]

REVENUE_BY_TYPE ==
    [WEB |-> <<1, 50>>, DB_READ |-> <<1, 100>>, DB_WRITE |-> <<4, 5>>,
     DB_SEARCH |-> <<3, 20>>, STATIC |-> <<1, 1000>>, ATTACK |-> <<0, 1>>]

WRITE_LOCKING_PENALTY == 5
CDN_WARMUP_CONSTANT == 20000
CACHE_WARMUP_CONSTANT == 5000
CACHE_WRITE_PENALTY == <<1, 200>>
SATISFACTION_RECOVERY_RATE == <<1, 20>>
SATISFACTION_PENALTY_RATE == <<1, 5>>
CROSS_AZ_LATENCY == 2
TECH_POINTS_PER_SUCCESS == <<1, 1000>>
MAX_STEPS == 6

\* The "non-negligible" cut-off used three times in the settlement loop.
THRESHOLD == <<1, 10>>

-----------------------------------------------------------------------------
(* Traffic mixes.                                                          *)

ZeroMix == [t \in ReqTypes |-> Zero]

MixTotal(m) == RSumSeq([k \in 1..Len(RequestType) |-> m[RequestType[k]]])
MixAdd(a, b) == [t \in ReqTypes |-> RAdd(a[t], b[t])]
MixScale(m, r) == [t \in ReqTypes |-> RMul(m[t], r)]
LegitTotal(m) == RSub(MixTotal(m), m["ATTACK"])

-----------------------------------------------------------------------------
(* Topology store.                                                         *)

\* addNode: the NodeData record of a newly created node.
NodeData(id, type, initialTier, az, hasManagedDB) ==
    [id |-> id,
     type |-> type,
     az |-> az,
     isManaged |-> (type \in {STORAGE, CDN}
                    \/ (type \in {DATABASE, DATABASE_NOSQL, CACHE} /\ hasManagedDB)),
     currentLoad |-> Zero,
     processedReqs |-> Zero,
     droppedReqs |-> Zero,
     status |-> "active",
     tier |-> IF type \in {COMPUTE, AUTOSCALING_GROUP}
              THEN (IF initialTier = NONE THEN "T1" ELSE initialTier)
              ELSE NONE,
     currentInstances |-> IF type = AUTOSCALING_GROUP THEN 1 ELSE 0,
     minInstances |-> IF type = AUTOSCALING_GROUP THEN 1 ELSE 0,
     maxInstances |-> IF type = AUTOSCALING_GROUP THEN 5 ELSE 0,
     scalingCooldown |-> 0,
     cdnTier |-> IF type = CDN THEN "EDGE_BASIC" ELSE NONE,
     algorithm |-> IF type = LOAD_BALANCER THEN ROUND_ROBIN ELSE NONE,
     dbRole |-> IF type = DATABASE THEN PRIMARY ELSE NONE,
     totalServed |-> Zero,
     cacheHitRate |-> <<1, 10>>,
     hasStorageConnection |-> FALSE,
     invalidationPressure |-> Zero,
     failureTimeLeft |-> 0,
     isUpgrading |-> FALSE,
     upgradeProgress |-> Zero]

\* rebuildAdjacency: source id -> its targets, in edge order.
rebuildAdjacency(conns) ==
    [s \in {conns[k].sourceId : k \in 1..Len(conns)} |->
        LET mine == SelectSeq(conns, LAMBDA c : c.sourceId = s)
        IN  [k \in 1..Len(mine) |-> mine[k].targetId]]

\* this.adjacencyMap.get(node.id) || []
ChildrenIds(adj, id) == IF id \in DOMAIN adj THEN adj[id] ELSE <<>>

\* this.nodeDataMap.get(id): the map always mirrors the node table.
HasNode(ns, id) == \E k \in 1..Len(ns) : ns[k].id = id
NodeIndex(ns, id) == CHOOSE k \in 1..Len(ns) : ns[k].id = id
nodeDataMap(ns, id) == ns[NodeIndex(ns, id)]

\* this.nodeDataMap.get(tid)?.type
TypeOf(ns, id) == IF HasNode(ns, id) THEN nodeDataMap(ns, id).type ELSE NONE
RoleOf(ns, id) == IF HasNode(ns, id) THEN nodeDataMap(ns, id).dbRole ELSE NONE

\* Array.prototype.find: the first match, or undefined.
First(matches) == IF matches = <<>> THEN NONE ELSE matches[1]

\* const next = this.simBufferNext.get(tid); if (next) next[t] += v;
AddNext(nxt, tid, t, v) ==
    IF tid \in DOMAIN nxt THEN [nxt EXCEPT ![tid][t] = RAdd(@, v)] ELSE nxt

\* for (const tid of targets) { next[t] += v }
RECURSIVE AddNextAll(_, _, _, _)
AddNextAll(nxt, targets, t, v) ==
    IF targets = <<>> THEN nxt
    ELSE AddNextAll(AddNext(nxt, Head(targets), t, v), Tail(targets), t, v)

-----------------------------------------------------------------------------
(* Node policy engine: capacity and admission.                             *)

\* A scaling decision that does not wait for the cooldown.
AutoscaleWithoutCooldown(node) ==
    IF RGt(node.currentLoad, R(85)) /\ node.currentInstances < node.maxInstances
    THEN [node EXCEPT !.currentInstances = @ + 1, !.scalingCooldown = 15000]
    ELSE IF RLt(node.currentLoad, R(30)) /\ node.currentInstances > node.minInstances
    THEN [node EXCEPT !.currentInstances = @ - 1, !.scalingCooldown = 15000]
    ELSE node

\* The scaling decision of an AutoscalingGroup, taken before its capacity is read.
Autoscale(node) ==
    IF node.scalingCooldown <= 0
    THEN IF RGt(node.currentLoad, R(85)) /\ node.currentInstances < node.maxInstances
         THEN [node EXCEPT !.currentInstances = @ + 1, !.scalingCooldown = 15000]
         ELSE IF RLt(node.currentLoad, R(30)) /\ node.currentInstances > node.minInstances
         THEN [node EXCEPT !.currentInstances = @ - 1, !.scalingCooldown = 15000]
         ELSE node
    ELSE node

\* let capacity = 999999; ... (node is already autoscaled)
Capacity(node) ==
    IF node.type = COMPUTE /\ node.tier # NONE THEN COMPUTE_TIERS[node.tier].capacity
    ELSE IF node.type = AUTOSCALING_GROUP /\ node.tier # NONE
         THEN COMPUTE_TIERS[node.tier].capacity
              * (IF node.currentInstances = 0 THEN 1 ELSE node.currentInstances)
    ELSE IF node.type = CDN /\ node.cdnTier # NONE THEN CDN_TIERS[node.cdnTier].capacity
    ELSE IF node.type = WAF THEN 50000
    ELSE IF node.type = FIREWALL THEN 200000
    ELSE IF node.type = LOAD_BALANCER THEN 100000
    ELSE IF node.type = CACHE THEN 20000
    ELSE IF node.type = DATABASE THEN (IF node.dbRole = PRIMARY THEN 3000 ELSE 5000)
    ELSE IF node.type = DATABASE_NOSQL THEN 15000
    ELSE 999999

\* An attenuation that the security upgrade does not improve.
AttackFactorWithoutShield(type, hasShield) ==
    IF type = FIREWALL THEN <<1, 5>>
    ELSE IF type = WAF THEN <<1, 1000>>
    ELSE One

\* Attack attenuation of Firewall / WAF nodes.
AttackFactor(type, hasShield) ==
    IF type = FIREWALL THEN (IF hasShield THEN <<1, 20>> ELSE <<1, 5>>)
    ELSE IF type = WAF THEN (IF hasShield THEN <<1, 10000>> ELSE <<1, 1000>>)
    ELSE One

\* const weightedInput = (totalInput - attack - write) + effectiveWriteLoad + attack * attackWeight
WeightedInput(node, mix) ==
    LET totalInput == MixTotal(mix)
        attackWeight == IF node.type \in {FIREWALL, WAF} THEN 1 ELSE 10
        effectiveWriteLoad ==
            IF node.type = DATABASE /\ node.dbRole = PRIMARY
            THEN RMul(mix["DB_WRITE"], R(WRITE_LOCKING_PENALTY))
            ELSE mix["DB_WRITE"]
    IN  RAdd(RAdd(RSub(RSub(totalInput, mix["ATTACK"]), mix["DB_WRITE"]), effectiveWriteLoad),
             RMul(mix["ATTACK"], R(attackWeight)))

\* An admission ratio that admits half of what the capacity allows.
RatioHalved(capacity, weightedInput) ==
    IF capacity > 0
    THEN (IF RLe(weightedInput, R(capacity)) THEN One
          ELSE RDiv(R(capacity), RMul(weightedInput, R(2))))
    ELSE Zero

\* const ratio = capacity > 0 ? Math.min(1, capacity / weightedInput) : 0
Ratio(capacity, weightedInput) ==
    IF capacity > 0
    THEN (IF RLe(weightedInput, R(capacity)) THEN One ELSE RDiv(R(capacity), weightedInput))
    ELSE Zero

\* node.currentLoad = ratio < 1 ? 100 : (weightedInput / capacity) * 100
CurrentLoad(ratio, weightedInput, capacity) ==
    IF RLt(ratio, One) THEN R(100) ELSE RMul(RDiv(weightedInput, R(capacity)), R(100))

\* 5 + 20 * lf + (lf > 0.85 ? (lf * 10 - 8.5)^3 * 10 : 0)
LatencyCurve(lf) ==
    LET x == RSub(RMul(lf, R(10)), <<17, 2>>)
    IN  RAdd(RAdd(R(5), RMul(R(20), lf)),
             IF RGt(lf, <<17, 20>>) THEN RMul(RMul(RMul(x, x), x), R(10)) ELSE Zero)

-----------------------------------------------------------------------------
(* Node policy engine: kind-specific routing.                              *)
(*                                                                         *)
(* Every routing operator maps an effect record e to the effect after the  *)
(* branch: e.nodes (node table), e.next (simBufferNext), e.suc / e.fail    *)
(* (the b<Type>Suc / b<Type>Fail tallies), e.rc503 (responseCodes[503]),   *)
(* e.lat (totalLatencyAccumulator).  adm is the admitted (ratio-scaled)    *)
(* mix: web, dbRead, dbWrite, dbSearch, stat, attack.                      *)

SetNode(ns, id, rec) == [ns EXCEPT ![NodeIndex(ns, id)] = rec]

Suc(e, t, v) == [e EXCEPT !.suc[t] = RAdd(@, v)]
Fail(e, t, v) == [e EXCEPT !.fail[t] = RAdd(@, v)]
\* this.metrics.responseCodes[HTTP_503] += v; b<T>Fail += v
Fail503(e, t, v) == [e EXCEPT !.rc503 = RAdd(@, v), !.fail[t] = RAdd(@, v)]

RECURSIVE FailAll(_, _, _)
FailAll(e, adm, types) ==
    IF types = {} THEN e
    ELSE LET t == CHOOSE x \in types : TRUE
         IN  FailAll(Fail(e, t, adm[t]), adm, types \ {t})

\* A CDN without a Storage child that fails the volume without a response code.
RouteCdnNoStorageQuiet(e, id, adm) ==
    [e EXCEPT !.nodes = SetNode(@, id, [nodeDataMap(e.nodes, id)
                                          EXCEPT !.hasStorageConnection = FALSE]),
              !.fail = MixAdd(@, adm)]

\* CDN without a Storage child: everything admitted is a 503.
RouteCdnNoStorage(e, id, adm) ==
    LET node == nodeDataMap(e.nodes, id)
        droppedTraffic == MixTotal(adm)
    IN  [e EXCEPT !.nodes = SetNode(@, id, [node EXCEPT !.hasStorageConnection = FALSE]),
                  !.rc503 = RAdd(@, droppedTraffic),
                  !.fail = MixAdd(@, adm)]

\* A CDN with a Storage child that serves the hits and loses the misses.
RouteCdnStorageLosingMisses(e, id, adm, connectedStorage) ==
    LET node == nodeDataMap(e.nodes, id)
        stat == adm["STATIC"]
        e1 == [e EXCEPT !.next = AddNext(@, connectedStorage, "ATTACK", adm["ATTACK"])]
        e2 == FailAll(e1, adm, {"WEB", "DB_READ", "DB_WRITE", "DB_SEARCH"})
        tierConfig == IF node.cdnTier # NONE THEN CDN_TIERS[node.cdnTier]
                      ELSE CDN_TIERS["EDGE_BASIC"]
        totalServed == RAdd(node.totalServed, stat)
        warmFactor == RDiv(totalServed, RAdd(totalServed, R(CDN_WARMUP_CONSTANT)))
        effectiveHitRate == RMul(tierConfig.maxHitRate, warmFactor)
        hits == RMul(stat, effectiveHitRate)
        misses == RMul(stat, RSub(One, effectiveHitRate))
        crossAz == connectedStorage \in DOMAIN e.next
                   /\ HasNode(e.nodes, connectedStorage)
                   /\ nodeDataMap(e.nodes, connectedStorage).az # node.az
    IN  IF RGt(stat, Zero)
        THEN [e2 EXCEPT
                !.nodes = SetNode(@, id, [node EXCEPT !.hasStorageConnection = TRUE,
                                                      !.totalServed = totalServed,
                                                      !.cacheHitRate = effectiveHitRate]),
                !.suc["STATIC"] = RAdd(@, hits),
                !.lat = IF crossAz
                        THEN RAdd(@, RDiv(RMul(misses, R(CROSS_AZ_LATENCY)), stat))
                        ELSE @]
        ELSE [e2 EXCEPT
                !.nodes = SetNode(@, id, [node EXCEPT !.hasStorageConnection = TRUE])]

\* CDN with a Storage child.
RouteCdnStorage(e, id, adm, connectedStorage) ==
    LET node == nodeDataMap(e.nodes, id)
        stat == adm["STATIC"]
        e1 == [e EXCEPT !.next = AddNext(@, connectedStorage, "ATTACK", adm["ATTACK"])]
        e2 == FailAll(e1, adm, {"WEB", "DB_READ", "DB_WRITE", "DB_SEARCH"})
        tierConfig == IF node.cdnTier # NONE THEN CDN_TIERS[node.cdnTier]
                      ELSE CDN_TIERS["EDGE_BASIC"]
        totalServed == RAdd(node.totalServed, stat)
        warmFactor == RDiv(totalServed, RAdd(totalServed, R(CDN_WARMUP_CONSTANT)))
        effectiveHitRate == RMul(tierConfig.maxHitRate, warmFactor)
        hits == RMul(stat, effectiveHitRate)
        misses == RMul(stat, RSub(One, effectiveHitRate))
        crossAz == connectedStorage \in DOMAIN e.next
                   /\ HasNode(e.nodes, connectedStorage)
                   /\ nodeDataMap(e.nodes, connectedStorage).az # node.az
    IN  IF RGt(stat, Zero)
        THEN [e2 EXCEPT
                !.nodes = SetNode(@, id, [node EXCEPT !.hasStorageConnection = TRUE,
                                                      !.totalServed = totalServed,
                                                      !.cacheHitRate = effectiveHitRate]),
                !.suc["STATIC"] = RAdd(@, hits),
                !.next = AddNext(@, connectedStorage, "STATIC", misses),
                !.lat = IF crossAz
                        THEN RAdd(@, RDiv(RMul(misses, R(CROSS_AZ_LATENCY)), stat))
                        ELSE @]
        ELSE [e2 EXCEPT
                !.nodes = SetNode(@, id, [node EXCEPT !.hasStorageConnection = TRUE])]

RouteCDN(e, id, adm, childrenIds) ==
    LET connectedStorage == First(SelectSeq(childrenIds,
                                          LAMBDA tid : TypeOf(e.nodes, tid) = STORAGE))
    IN  IF connectedStorage = NONE
        THEN RouteCdnNoStorage(e, id, adm)
        ELSE RouteCdnStorage(e, id, adm, connectedStorage)

\* Compute: attack is spread over the data targets.
ComputeAttack(e, attack, targets) ==
    IF RGt(attack, Zero) /\ Len(targets) > 0
    THEN [e EXCEPT !.next = AddNextAll(@, targets, "ATTACK",
                                       RMul(attack, Frac(1, Len(targets))))]
    ELSE e

\* Compute: DbSearch prefers NoSQL, then the first replica, then the primary.
ComputeSearch(e, dbSearch, noSqlNode, sqlPrimary, sqlReplicas) ==
    IF ~RGt(dbSearch, Zero) THEN e
    ELSE IF noSqlNode # NONE
         THEN [e EXCEPT !.next = AddNext(@, noSqlNode, "DB_SEARCH", dbSearch)]
    ELSE IF sqlPrimary # NONE \/ Len(sqlReplicas) > 0
         THEN LET target == IF Len(sqlReplicas) > 0 THEN sqlReplicas[1] ELSE sqlPrimary
              IN  [e EXCEPT !.next = AddNext(@, target, "DB_SEARCH", dbSearch)]
    ELSE Fail503(e, "DB_SEARCH", dbSearch)

\* A Compute node that forgets the DbWrite volume it cannot forward.
ComputeWriteDropped(e, dbWrite, sqlPrimary, cacheNode) ==
    IF RGt(dbWrite, Zero) /\ sqlPrimary # NONE
    THEN LET e1 == [e EXCEPT !.next = AddNext(@, sqlPrimary, "DB_WRITE", dbWrite)]
         IN  IF cacheNode # NONE /\ HasNode(e.nodes, cacheNode)
             THEN LET cacheData == nodeDataMap(e.nodes, cacheNode)
                  IN  [e1 EXCEPT !.nodes = SetNode(@, cacheNode,
                          [cacheData EXCEPT !.invalidationPressure = RAdd(@, dbWrite)])]
             ELSE e1
    ELSE e

\* Compute: DbWrite needs a primary; it also raises the cache's invalidation pressure.
ComputeWrite(e, dbWrite, sqlPrimary, cacheNode) ==
    IF ~RGt(dbWrite, Zero) THEN e
    ELSE IF sqlPrimary # NONE
         THEN LET e1 == [e EXCEPT !.next = AddNext(@, sqlPrimary, "DB_WRITE", dbWrite)]
              IN  IF cacheNode # NONE /\ HasNode(e.nodes, cacheNode)
                  THEN LET cacheData == nodeDataMap(e.nodes, cacheNode)
                       IN  [e1 EXCEPT !.nodes = SetNode(@, cacheNode,
                               [cacheData EXCEPT !.invalidationPressure = RAdd(@, dbWrite)])]
                  ELSE e1
    ELSE Fail503(e, "DB_WRITE", dbWrite)

\* Compute: DbRead tries the cache, the remainder goes to the replicas or the primary.
ComputeRead(e, dbRead, cacheNode, sqlPrimary, sqlReplicas) ==
    IF ~RGt(dbRead, Zero) THEN e
    ELSE LET hasCache == cacheNode # NONE
             hasCNode == hasCache /\ HasNode(e.nodes, cacheNode)
             cNode == nodeDataMap(e.nodes, cacheNode)
             rate == IF hasCNode THEN cNode.cacheHitRate ELSE Zero
             hits == RMul(dbRead, rate)
             remainingRead == IF hasCache THEN RSub(dbRead, hits) ELSE dbRead
             e1 == IF hasCache
                   THEN [e EXCEPT
                           !.nodes = IF hasCNode
                                     THEN SetNode(@, cacheNode,
                                            [cNode EXCEPT !.totalServed = RAdd(@, dbRead)])
                                     ELSE @,
                           !.next = AddNext(@, cacheNode, "DB_READ", hits)]
                   ELSE e
             targets == IF Len(sqlReplicas) > 0 THEN sqlReplicas
                        ELSE IF sqlPrimary # NONE THEN <<sqlPrimary>> ELSE <<>>
         IN  IF ~RGt(remainingRead, Zero) THEN e1
             ELSE IF Len(targets) > 0
                  THEN [e1 EXCEPT !.next = AddNextAll(@, targets, "DB_READ",
                                              RMul(remainingRead, Frac(1, Len(targets))))]
             ELSE Fail503(e1, "DB_READ", remainingRead)

\* A Compute node that forgets Static volume it cannot forward.
ComputeStaticDropped(e, stat, storageNodes) ==
    IF RGt(stat, Zero) /\ Len(storageNodes) > 0
    THEN [e EXCEPT !.next = AddNextAll(@, storageNodes, "STATIC",
                                       RMul(stat, Frac(1, Len(storageNodes))))]
    ELSE e

\* Compute: Static is split evenly over the Storage children.
ComputeStatic(e, stat, storageNodes) ==
    IF ~RGt(stat, Zero) THEN e
    ELSE IF Len(storageNodes) > 0
         THEN [e EXCEPT !.next = AddNextAll(@, storageNodes, "STATIC",
                                            RMul(stat, Frac(1, Len(storageNodes))))]
    ELSE Fail503(e, "STATIC", stat)

RouteCompute(e, id, adm, childrenIds) ==
    LET ns == e.nodes
        cacheNode == First(SelectSeq(childrenIds, LAMBDA tid : TypeOf(ns, tid) = CACHE))
        sqlPrimary == First(SelectSeq(childrenIds,
                           LAMBDA tid : TypeOf(ns, tid) = DATABASE /\ RoleOf(ns, tid) = PRIMARY))
        sqlReplicas == SelectSeq(childrenIds,
                           LAMBDA tid : TypeOf(ns, tid) = DATABASE /\ RoleOf(ns, tid) = REPLICA)
        noSqlNode == First(SelectSeq(childrenIds,
                          LAMBDA tid : TypeOf(ns, tid) = DATABASE_NOSQL))
        storageNodes == SelectSeq(childrenIds, LAMBDA tid : TypeOf(ns, tid) = STORAGE)
        targets == SelectSeq(sqlReplicas \o <<sqlPrimary, noSqlNode, cacheNode>>,
                             LAMBDA t : t # NONE)
        e0 == Suc(Suc(e, "WEB", adm["WEB"]), "ATTACK", adm["ATTACK"])
        e1 == ComputeAttack(e0, adm["ATTACK"], targets)
        e2 == ComputeSearch(e1, adm["DB_SEARCH"], noSqlNode, sqlPrimary, sqlReplicas)
        e3 == ComputeWrite(e2, adm["DB_WRITE"], sqlPrimary, cacheNode)
        e4 == ComputeRead(e3, adm["DB_READ"], cacheNode, sqlPrimary, sqlReplicas)
    IN  ComputeStatic(e4, adm["STATIC"], storageNodes)

\* Cache: reads are hits; the hit rate of the next tick is recomputed.
RouteCache(e, id, adm) ==
    LET node == nodeDataMap(e.nodes, id)
        dbRead == adm["DB_READ"]
        e1 == Suc(Suc(e, "DB_READ", dbRead), "ATTACK", adm["ATTACK"])
        e2 == FailAll(e1, adm, {"WEB", "DB_WRITE", "STATIC", "DB_SEARCH"})
        warmFactor == RDiv(node.totalServed, RAdd(node.totalServed, R(CACHE_WARMUP_CONSTANT)))
        poisonFactor == RMin(<<1, 2>>, RMul(node.invalidationPressure, CACHE_WRITE_PENALTY))
        cacheHitRate == RMax(<<1, 10>>, RMin(<<19, 20>>, RSub(warmFactor, poisonFactor)))
        estimatedTotalLookups == RDiv(dbRead, cacheHitRate)
        processedReqs ==
            IF RGt(cacheHitRate, Zero) /\ RGt(dbRead, Zero)
               /\ RGt(estimatedTotalLookups, node.processedReqs)
            THEN estimatedTotalLookups ELSE node.processedReqs
    IN  [e2 EXCEPT !.nodes = SetNode(@, id, [node EXCEPT !.invalidationPressure = Zero,
                                                         !.cacheHitRate = cacheHitRate,
                                                         !.processedReqs = processedReqs])]

\* A SQL database that accepts writes whatever its role.
RouteDatabaseWritable(e, id, adm) ==
    LET e1 == Suc(Suc(e, "DB_WRITE", adm["DB_WRITE"]), "DB_READ", adm["DB_READ"])
        e2 == Suc(Suc(e1, "DB_SEARCH", adm["DB_SEARCH"]), "ATTACK", adm["ATTACK"])
    IN  FailAll(e2, adm, {"WEB", "STATIC"})

\* SQL database: a replica fails writes, a primary accepts them.
RouteDatabase(e, id, adm) ==
    LET node == nodeDataMap(e.nodes, id)
        e1 == IF node.dbRole = REPLICA
              THEN Suc(Fail(e, "DB_WRITE", adm["DB_WRITE"]), "DB_READ", adm["DB_READ"])
              ELSE Suc(Suc(e, "DB_WRITE", adm["DB_WRITE"]), "DB_READ", adm["DB_READ"])
        e2 == Suc(Suc(e1, "DB_SEARCH", adm["DB_SEARCH"]), "ATTACK", adm["ATTACK"])
    IN  FailAll(e2, adm, {"WEB", "STATIC"})

RouteNoSql(e, id, adm) ==
    LET e1 == Suc(Suc(Suc(e, "DB_SEARCH", adm["DB_SEARCH"]), "DB_WRITE", adm["DB_WRITE"]),
                  "DB_READ", adm["DB_READ"])
    IN  FailAll(Suc(e1, "ATTACK", adm["ATTACK"]), adm, {"WEB", "STATIC"})

RouteStorage(e, id, adm) ==
    LET e1 == Suc(Suc(e, "STATIC", adm["STATIC"]), "ATTACK", adm["ATTACK"])
    IN  FailAll(e1, adm, {"WEB", "DB_READ", "DB_WRITE", "DB_SEARCH"})

-----------------------------------------------------------------------------
(* Load balancing policies.                                                *)

\* let cap = 100; if (c.tier) cap = COMPUTE_TIERS[c.tier].capacity
TierCapacity(c) == IF c.tier # NONE THEN COMPUTE_TIERS[c.tier].capacity ELSE 100

\* A weight that prefers the children of zone B.
ZoneBiasedWeight(c) == IF c.az = "B" THEN R(2) ELSE One

RoundRobinWeight(c) == One
RandomWeight(c) == One
WeightedRoundRobinWeight(c) == R(TierCapacity(c))

\* The free load percentage itself, not squared.
LinearFreeWeight(c) == RMax(One, RSub(R(100), c.currentLoad))

\* The squared free load percentage without the floor of 1.
UnflooredFreeWeight(c) ==
    LET free == RMax(Zero, RSub(R(100), c.currentLoad)) IN RMul(free, free)

\* const free = Math.max(1, 100 - c.currentLoad); weight = free^2
LeastConnectionWeight(c) ==
    LET free == RMax(One, RSub(R(100), c.currentLoad)) IN RMul(free, free)

\* cap * Math.max(0.01, (100 - c.currentLoad) / 100)
WeightedLeastConnectionWeight(c) ==
    LET freePct == RMax(<<1, 100>>, RDiv(RSub(R(100), c.currentLoad), R(100)))
    IN  RMul(R(TierCapacity(c)), freePct)

\* 1000 / Math.max(1, latency(c.currentLoad / 100))
LeastResponseTimeWeight(c) ==
    LET latency == LatencyCurve(RDiv(c.currentLoad, R(100)))
    IN  RDiv(R(1000), RMax(One, latency))

\* The weight the selected policy gives one healthy child.
Weight(algo, c) ==
    IF algo = RANDOM THEN RandomWeight(c)
    ELSE IF algo = ROUND_ROBIN THEN RoundRobinWeight(c)
    ELSE IF algo = WEIGHTED_ROUND_ROBIN THEN WeightedRoundRobinWeight(c)
    ELSE IF algo = LEAST_CONNECTION THEN LeastConnectionWeight(c)
    ELSE IF algo = WEIGHTED_LEAST_CONNECTION THEN WeightedLeastConnectionWeight(c)
    ELSE LeastResponseTimeWeight(c)

\* Random only: noise = (Math.random() - 0.5) * 0.5; ratio = max(0, ratio + ratio * noise)
Jitter(ratio, rnd) ==
    LET noise == RMul(RSub(rnd, <<1, 2>>), <<1, 2>>)
    IN  RMax(Zero, RAdd(ratio, RMul(ratio, noise)))

\* targets: the healthy children with weight and share, in child order.
\* rnds[k] is the Math.random() draw for the k-th target (used by Random only).
Targets(algo, healthyChildren, rnds) ==
    LET w == [k \in 1..Len(healthyChildren) |-> Weight(algo, healthyChildren[k])]
        totalWeight == RSumSeq(w)
    IN  [k \in 1..Len(healthyChildren) |->
            [id |-> healthyChildren[k].id,
             weight |-> w[k],
             totalWeight |-> totalWeight,
             ratio |-> IF ~RGt(totalWeight, Zero) THEN Zero
                       ELSE IF algo = RANDOM
                            THEN Jitter(RDiv(w[k], totalWeight), rnds[k])
                            ELSE RDiv(w[k], totalWeight)]]

\* for (const t of targets) { next[type] += volume[type] * ratio; cross-AZ latency }
RECURSIVE Distribute(_, _, _, _, _)
Distribute(e, node, adm, totalDynamic, targets) ==
    IF targets = <<>> THEN e
    ELSE LET t == Head(targets)
             dyn == [x \in ReqTypes |-> IF x = "STATIC" THEN Zero ELSE RMul(adm[x], t.ratio)]
             crossAzLoad == RMul(totalDynamic, t.ratio)
             e1 == IF t.id \in DOMAIN e.next
                   THEN [e EXCEPT
                           !.next[t.id] = MixAdd(@, dyn),
                           !.lat = IF nodeDataMap(e.nodes, t.id).az # node.az
                                   THEN RAdd(@, RDiv(RMul(crossAzLoad, R(CROSS_AZ_LATENCY)),
                                                     totalDynamic))
                                   ELSE @]
                   ELSE e
         IN  Distribute(e1, node, adm, totalDynamic, Tail(targets))

\* Static at a generic router: CDN children first, else all other children, else 503.
GenericStatic(e, stat, cdnChildren, otherChildren) ==
    IF ~RGt(stat, Zero) THEN e
    ELSE IF Len(cdnChildren) > 0
         THEN [e EXCEPT !.next = AddNextAll(@, cdnChildren, "STATIC",
                                            RMul(stat, Frac(1, Len(cdnChildren))))]
    ELSE IF Len(otherChildren) > 0
         THEN [e EXCEPT !.next = AddNextAll(@, otherChildren, "STATIC",
                                            RMul(stat, Frac(1, Len(otherChildren))))]
    ELSE Fail503(e, "STATIC", stat)

\* Every child that exists counts as healthy, whatever its status.
HealthyChildrenAnyStatus(ns, otherChildren) ==
    LET ids == SelectSeq(otherChildren, LAMBDA tid : HasNode(ns, tid))
    IN  [k \in 1..Len(ids) |-> nodeDataMap(ns, ids[k])]

\* const healthyChildren = otherChildren.map(get).filter(c => c && c.status === 'active')
HealthyChildren(ns, otherChildren) ==
    LET ids == SelectSeq(otherChildren,
                         LAMBDA tid : HasNode(ns, tid) /\ nodeDataMap(ns, tid).status = "active")
    IN  [k \in 1..Len(ids) |-> nodeDataMap(ns, ids[k])]

\* Dynamic volume at a generic router.
GenericDynamic(e, id, adm, otherChildren, rnds) ==
    LET node == nodeDataMap(e.nodes, id)
        totalDynamic == RSub(MixTotal(adm), adm["STATIC"])
        algo == IF node.algorithm # NONE THEN node.algorithm ELSE ROUND_ROBIN
        healthyChildren == HealthyChildren(e.nodes, otherChildren)
    IN  IF ~RGt(totalDynamic, Zero) THEN e
        ELSE IF Len(otherChildren) > 0 /\ Len(healthyChildren) > 0
             THEN Distribute(e, node, adm, totalDynamic,
                             Targets(algo, healthyChildren, rnds))
        ELSE [e EXCEPT !.rc503 = RAdd(@, totalDynamic),
                       !.fail = MixAdd(@, [adm EXCEPT !["STATIC"] = Zero])]

RouteGeneric(e, id, adm, childrenIds, rnds) ==
    LET cdnChildren == SelectSeq(childrenIds, LAMBDA tid : TypeOf(e.nodes, tid) = CDN)
        otherChildren == SelectSeq(childrenIds, LAMBDA tid : TypeOf(e.nodes, tid) # CDN)
    IN  GenericDynamic(GenericStatic(e, adm["STATIC"], cdnChildren, otherChildren),
                       id, adm, otherChildren, rnds)

Route(e, id, adm, childrenIds, rnds) ==
    LET type == nodeDataMap(e.nodes, id).type
    IN  IF type = CDN THEN RouteCDN(e, id, adm, childrenIds)
        ELSE IF type = COMPUTE THEN RouteCompute(e, id, adm, childrenIds)
        ELSE IF type = CACHE THEN RouteCache(e, id, adm)
        ELSE IF type = DATABASE THEN RouteDatabase(e, id, adm)
        ELSE IF type = DATABASE_NOSQL THEN RouteNoSql(e, id, adm)
        ELSE IF type = STORAGE THEN RouteStorage(e, id, adm)
        ELSE RouteGeneric(e, id, adm, childrenIds, rnds)

-----------------------------------------------------------------------------
(* Flow settlement loop: runTrafficSimulation, one action per step.        *)

NoLast ==
    [id |-> NONE, outcome |-> "none", input |-> ZeroMix, blockedAttack |-> Zero,
     totalInput |-> Zero, capacity |-> 0, weightedInput |-> Zero, ratio |-> Zero,
     dropped |-> Zero, adm |-> ZeroMix, step |-> 0]

NoSim ==
    [step |-> 0, i |-> 1, trafficMoved |-> FALSE, suc |-> ZeroMix, fail |-> ZeroMix,
     totalIncoming |-> 0, attackVolume |-> 0, lat |-> Zero,
     nodesContributingToLatency |-> 0, maxNodeLoadFactor |-> Zero,
     discarded |-> ZeroMix, jittered |-> FALSE, carried |-> Zero]

ZeroCodes == [c \in ResponseCode |-> Zero]

\* Satisfaction-driven churn, dampened at large traffic.
ChurnFactor(sat, base) ==
    LET c == IF RGt(sat, R(95)) THEN <<2003, 2000>>
             ELSE IF RGt(sat, R(80)) THEN <<2001, 2000>>
             ELSE IF RGt(sat, R(60)) THEN One
             ELSE IF RGt(sat, R(40)) THEN <<1999, 2000>>
             ELSE <<99, 100>>
    IN  IF RGt(base, R(50000)) THEN RAdd(One, RMul(RSub(c, One), <<1, 10>>))
        ELSE IF RGt(base, R(10000)) THEN RAdd(One, RMul(RSub(c, One), <<1, 2>>))
        ELSE c

\* this.currentBaseTraffic after the churn step, clamped to [10, 1000000].
NextBaseTraffic(sat, base) ==
    RMax(R(10), RMin(R(1000000), RMul(base, ChurnFactor(sat, base))))

\* Math.floor(Math.max(10, base + dailyCycle + noise)); sine is Math.sin(time * 0.2),
\* rnd is Math.random().
TotalIncoming(base, sine, rnd) ==
    LET dailyCycle == RMul(sine, RMul(base, <<1, 10>>))
        noise == RMul(RSub(rnd, <<1, 2>>), RMul(base, <<1, 20>>))
    IN  RFloor(RMax(R(10), RAdd(RAdd(base, dailyCycle), noise)))

\* The per-tick reset of every node (lines 1145-1150).
ResetNode(n) ==
    [n EXCEPT !.processedReqs = Zero, !.droppedReqs = Zero,
              !.hasStorageConnection = FALSE, !.invalidationPressure = Zero]

\* The mix seeded into one Source node.
SeedMix(flowPerInternet, attackPerInternet) ==
    [t \in ReqTypes |-> IF t = "ATTACK" THEN attackPerInternet
                        ELSE RMul(flowPerInternet, TRAFFIC_MIX[t])]

\* Buffers that keep what the previous tick left at the other nodes.
SeedBuffersCarrying(bufs, ns, flowPerInternet, attackPerInternet) ==
    [id \in DOMAIN bufs |->
        IF HasNode(ns, id) /\ TypeOf(ns, id) = INTERNET
        THEN SeedMix(flowPerInternet, attackPerInternet)
        ELSE bufs[id]]

\* The current buffers after the per-tick reset and the seeding of the Sources.
SeedBuffers(bufs, ns, flowPerInternet, attackPerInternet) ==
    [id \in DOMAIN bufs |->
        IF HasNode(ns, id) /\ TypeOf(ns, id) = INTERNET
        THEN SeedMix(flowPerInternet, attackPerInternet)
        ELSE IF HasNode(ns, id) THEN ZeroMix ELSE bufs[id]]

\* The volume the previous tick left in the current buffers.
Carried(bufs) ==
    RSumSeq([k \in 1..Len(nodes) |->
                IF nodes[k].id \in DOMAIN bufs THEN MixTotal(bufs[nodes[k].id]) ELSE Zero])

\* Lines 1108-1189: generate the tick's volume, reset, seed the Source nodes.
TickStart(sine, rnd) ==
    /\ pc = "idle"
    /\ LET base == NextBaseTraffic(metrics.userSatisfaction, currentBaseTraffic)
           legit == TotalIncoming(base, sine, rnd)
           attackVolume == IF isUnderAttack THEN legit * 4 ELSE 0
           totalIncoming == legit + attackVolume
           internet == {k \in 1..Len(nodes) : nodes[k].type = INTERNET}
           count == IF Cardinality(internet) = 0 THEN 1 ELSE Cardinality(internet)
           flowPerInternet == Frac(totalIncoming - attackVolume, count)
           attackPerInternet == Frac(attackVolume, count)
       IN  /\ currentBaseTraffic' = base
           /\ metrics' = [metrics EXCEPT !.responseCodes = ZeroCodes]
           /\ nodes' = [k \in 1..Len(nodes) |-> ResetNode(nodes[k])]
           /\ simBufferCurrent' =
                 SeedBuffers(simBufferCurrent, nodes, flowPerInternet, attackPerInternet)
           /\ sim' = [NoSim EXCEPT !.totalIncoming = totalIncoming,
                                   !.attackVolume = attackVolume,
                                   !.carried = Carried(simBufferCurrent)]
    /\ last' = NoLast
    /\ pc' = "round"
    /\ ticks' = ticks + 1
    /\ UNCHANGED <<connections, adjacencyMap, simBufferNext, isUnderAttack, scene, emitted>>

\* Top of the for-loop body: clear every next buffer.
BeginRound ==
    /\ pc = "round"
    /\ simBufferNext' = [id \in DOMAIN simBufferNext |-> ZeroMix]
    /\ sim' = [sim EXCEPT !.trafficMoved = FALSE, !.i = 1]
    /\ pc' = "node"
    /\ UNCHANGED <<nodes, connections, adjacencyMap, simBufferCurrent, metrics,
                   currentBaseTraffic, isUnderAttack, last, ticks, scene, emitted>>

\* A status gate that fails the buffer without recording the 500.
StatusGateUnrecorded(node, inputMix) ==
    LET hit == RGt(MixTotal(inputMix), THRESHOLD)
    IN  /\ metrics' = metrics
        /\ simBufferCurrent' = IF hit
                               THEN [simBufferCurrent EXCEPT ![node.id] = ZeroMix]
                               ELSE simBufferCurrent
        /\ sim' = IF hit
                  THEN [sim EXCEPT !.fail = MixAdd(@, inputMix), !.trafficMoved = TRUE,
                                   !.i = @ + 1]
                  ELSE [sim EXCEPT !.i = @ + 1,
                                   !.discarded = MixAdd(@, inputMix)]
        /\ last' = [NoLast EXCEPT !.id = node.id, !.step = sim.step,
                                  !.outcome = IF hit THEN "gated" ELSE "ignored",
                                  !.input = inputMix, !.totalInput = MixTotal(inputMix)]
        /\ UNCHANGED <<nodes, simBufferNext>>

\* Status gate: a node that is not active fails its whole buffer with a 500.
StatusGate(node, inputMix) ==
    LET totalFail == MixTotal(inputMix)
        hit == RGt(totalFail, THRESHOLD)
    IN  /\ metrics' = IF hit
                      THEN [metrics EXCEPT !.responseCodes["500"] = RAdd(@, totalFail)]
                      ELSE metrics
        /\ simBufferCurrent' = IF hit
                               THEN [simBufferCurrent EXCEPT ![node.id] = ZeroMix]
                               ELSE simBufferCurrent
        /\ sim' = IF hit
                  THEN [sim EXCEPT !.fail = MixAdd(@, inputMix), !.trafficMoved = TRUE,
                                   !.i = @ + 1]
                  ELSE [sim EXCEPT !.i = @ + 1,
                                   !.discarded = MixAdd(@, inputMix)]
        /\ last' = [NoLast EXCEPT !.id = node.id, !.step = sim.step,
                                  !.outcome = IF hit THEN "gated" ELSE "ignored",
                                  !.input = inputMix, !.totalInput = totalFail]
        /\ UNCHANGED <<nodes, simBufferNext>>

\* The admission of an active node with non-negligible input, then its routing.
Admit(node0, filtered, blockedAttack, inputMix, rnds) ==
    LET totalInput == MixTotal(filtered)
        node1 == IF node0.type = AUTOSCALING_GROUP /\ node0.tier # NONE
                 THEN Autoscale(node0) ELSE node0
        capacity == Capacity(node1)
        weightedInput == WeightedInput(node1, filtered)
        ratio == Ratio(capacity, weightedInput)
        dropped == RMul(totalInput, RSub(One, ratio))
        currentLoad == CurrentLoad(ratio, weightedInput, capacity)
        loadFactor == RMin(<<99, 100>>, RDiv(currentLoad, R(100)))
        nodeLatency == LatencyCurve(loadFactor)
        contributes == RGt(node1.processedReqs, Zero)
        node2 == [node1 EXCEPT !.currentLoad = currentLoad,
                               !.droppedReqs = RAdd(@, dropped),
                               !.processedReqs = RAdd(@, RMul(totalInput, ratio))]
        adm == MixScale(filtered, ratio)
        e0 == [nodes |-> [nodes EXCEPT ![sim.i] = node2],
               next |-> simBufferNext,
               suc |-> sim.suc,
               fail |-> IF RLt(ratio, One)
                        THEN MixAdd(sim.fail, MixScale(filtered, RSub(One, ratio)))
                        ELSE sim.fail,
               rc503 |-> metrics.responseCodes["503"],
               lat |-> IF contributes THEN RAdd(sim.lat, nodeLatency) ELSE sim.lat]
        e == Route(e0, node0.id, adm, ChildrenIds(adjacencyMap, node0.id), rnds)
    IN  /\ nodes' = e.nodes
        /\ simBufferNext' = e.next
        /\ simBufferCurrent' = [simBufferCurrent EXCEPT ![node0.id] = filtered]
        /\ metrics' = [metrics EXCEPT
                          !.responseCodes["403"] = RAdd(@, blockedAttack),
                          !.responseCodes["429"] = IF RGt(dropped, Zero)
                                                   THEN RAdd(@, dropped) ELSE @,
                          !.responseCodes["503"] = e.rc503]
        /\ sim' = [sim EXCEPT
                      !.suc = e.suc, !.fail = e.fail, !.lat = e.lat,
                      !.trafficMoved = TRUE, !.i = @ + 1,
                      !.nodesContributingToLatency = IF contributes THEN @ + 1 ELSE @,
                      !.maxNodeLoadFactor = RMax(@, loadFactor),
                      !.jittered = @ \/ (node0.algorithm = RANDOM
                                         /\ e.next # simBufferNext)]
        /\ last' = [id |-> node0.id, outcome |-> "routed", input |-> inputMix,
                    blockedAttack |-> blockedAttack, totalInput |-> totalInput,
                    capacity |-> capacity, weightedInput |-> weightedInput,
                    ratio |-> ratio, dropped |-> dropped, adm |-> adm,
                    step |-> sim.step]

\* A negligible input that still counts as traffic moved.
SkipMoving(node, filtered, blockedAttack, inputMix) ==
    /\ simBufferCurrent' = [simBufferCurrent EXCEPT ![node.id] = filtered]
    /\ metrics' = [metrics EXCEPT !.responseCodes["403"] = RAdd(@, blockedAttack)]
    /\ sim' = [sim EXCEPT !.i = @ + 1, !.trafficMoved = TRUE,
                          !.discarded = MixAdd(@, filtered)]
    /\ last' = [NoLast EXCEPT !.id = node.id, !.outcome = "skipped", !.step = sim.step,
                              !.input = inputMix, !.blockedAttack = blockedAttack,
                              !.totalInput = MixTotal(filtered)]
    /\ UNCHANGED <<nodes, simBufferNext>>

\* An active node whose input is negligible: only the security filter has acted.
Skip(node, filtered, blockedAttack, inputMix) ==
    /\ simBufferCurrent' = [simBufferCurrent EXCEPT ![node.id] = filtered]
    /\ metrics' = [metrics EXCEPT !.responseCodes["403"] = RAdd(@, blockedAttack)]
    /\ sim' = [sim EXCEPT !.i = @ + 1, !.discarded = MixAdd(@, filtered)]
    /\ last' = [NoLast EXCEPT !.id = node.id, !.outcome = "skipped", !.step = sim.step,
                              !.input = inputMix, !.blockedAttack = blockedAttack,
                              !.totalInput = MixTotal(filtered)]
    /\ UNCHANGED <<nodes, simBufferNext>>

\* One iteration of the inner loop: node number sim.i of this round.
\* The scaling cooldown of an AutoscalingGroup, in ms of scaled time.
SCALING_COOLDOWN_MS == 15000

\* Some node has another number of instances after than before.
Scaled(before, after) ==
    \E k \in 1..Len(before) : after[k].currentInstances # before[k].currentInstances

ProcessNode(rnds) ==
    /\ pc = "node"
    /\ sim.i <= Len(nodes)
    /\ LET node == nodes[sim.i]
       IN  IF node.id \notin DOMAIN simBufferCurrent
           THEN /\ sim' = [sim EXCEPT !.i = @ + 1]
                /\ UNCHANGED <<nodes, simBufferCurrent, simBufferNext, metrics, last>>
           ELSE LET inputMix == simBufferCurrent[node.id]
                    hasShield == "shield_advanced" \in metrics.unlockedTech
                    filtered == [inputMix EXCEPT
                                   !["ATTACK"] = RMul(@, AttackFactor(node.type, hasShield))]
                    blockedAttack == RSub(inputMix["ATTACK"], filtered["ATTACK"])
                IN  IF node.status # "active" THEN StatusGate(node, inputMix)
                    ELSE IF RLe(MixTotal(filtered), THRESHOLD)
                         THEN Skip(node, filtered, blockedAttack, inputMix)
                    ELSE Admit(node, filtered, blockedAttack, inputMix, rnds)
    /\ scene' = [scene EXCEPT !.sinceScaling = IF Scaled(nodes, nodes') THEN 0 ELSE @]
    /\ UNCHANGED <<connections, adjacencyMap, currentBaseTraffic, isUnderAttack, pc, ticks,
                   emitted>>

\* A settlement loop whose round cap is one round higher.
EndRoundOneRoundLate ==
    /\ pc = "node"
    /\ sim.i > Len(nodes)
    /\ IF ~sim.trafficMoved
       THEN /\ pc' = "finish"
            /\ UNCHANGED <<simBufferCurrent, sim>>
       ELSE /\ simBufferCurrent' =
                  [id \in DOMAIN simBufferCurrent |->
                      IF id \in DOMAIN simBufferNext THEN simBufferNext[id]
                      ELSE simBufferCurrent[id]]
            /\ sim' = [sim EXCEPT !.step = @ + 1]
            /\ pc' = IF sim.step < MAX_STEPS THEN "round" ELSE "finish"
    /\ UNCHANGED <<nodes, connections, adjacencyMap, simBufferNext, metrics,
                   currentBaseTraffic, isUnderAttack, last, ticks, scene, emitted>>

\* Bottom of the for-loop body: break when nothing moved, else swap next into
\* current and start the next round unless the round cap is reached.
EndRound ==
    /\ pc = "node"
    /\ sim.i > Len(nodes)
    /\ IF ~sim.trafficMoved
       THEN /\ pc' = "finish"
            /\ UNCHANGED <<simBufferCurrent, sim>>
       ELSE /\ simBufferCurrent' =
                  [id \in DOMAIN simBufferCurrent |->
                      IF id \in DOMAIN simBufferNext THEN simBufferNext[id]
                      ELSE simBufferCurrent[id]]
            /\ sim' = [sim EXCEPT !.step = @ + 1]
            /\ pc' = IF sim.step + 1 < MAX_STEPS THEN "round" ELSE "finish"
    /\ UNCHANGED <<nodes, connections, adjacencyMap, simBufferNext, metrics,
                   currentBaseTraffic, isUnderAttack, last, ticks, scene, emitted>>

-----------------------------------------------------------------------------
(* Metrics aggregator (lines 1675-1736).                                   *)

\* An uptime that reads "nothing succeeded" as "nothing was asked".
UptimeOptimistic(successful, legitIncoming) ==
    IF legitIncoming > 0 /\ RGt(successful, Zero)
    THEN RMin(R(100), RMul(RDiv(successful, R(legitIncoming)), R(100)))
    ELSE R(100)

\* legitIncoming > 0 ? Math.min(100, successful / legitIncoming * 100) : 100
Uptime(successful, legitIncoming) ==
    IF legitIncoming > 0
    THEN RMin(R(100), RMul(RDiv(successful, R(legitIncoming)), R(100)))
    ELSE R(100)

LatencyMs(lat, count, hasGlobalAccelerator) ==
    LET baseLatency == IF hasGlobalAccelerator THEN 10 ELSE 20
        avgNodeLatency == IF count > 0 THEN RDiv(lat, R(count)) ELSE Zero
    IN  RRound(RAdd(R(baseLatency), avgNodeLatency))

P95LatencyMs(latencyMs, maxNodeLoadFactor) ==
    LET p95Penalty == IF RGt(maxNodeLoadFactor, <<4, 5>>)
                      THEN RMul(RSub(maxNodeLoadFactor, <<4, 5>>), R(2000))
                      ELSE RMul(maxNodeLoadFactor, R(50))
    IN  RRound(RAdd(RMul(R(latencyMs), <<3, 2>>), p95Penalty))

UserSatisfaction(sat, failed, attackFail, legitIncoming, p95LatencyMs) ==
    LET totalLegitFailed == RSub(failed, attackFail)
        errorRate == IF legitIncoming > 0 THEN RDiv(totalLegitFailed, R(legitIncoming))
                     ELSE Zero
        latencyPenalty == IF p95LatencyMs > 1500 THEN <<3, 10>>
                          ELSE IF p95LatencyMs > 500 THEN <<1, 10>> ELSE Zero
    IN  IF RGt(errorRate, <<1, 20>>)
        THEN RMax(Zero, RSub(sat, SATISFACTION_PENALTY_RATE))
        ELSE RMin(R(100), RMax(Zero, RSub(RAdd(sat, SATISFACTION_RECOVERY_RATE),
                                          latencyPenalty)))

SumOver(m, types) == RSumSeq([k \in 1..Len(types) |-> m[types[k]]])
LegitSeq == <<"WEB", "DB_READ", "DB_WRITE", "DB_SEARCH", "STATIC">>

Revenue(suc) ==
    RSumSeq([k \in 1..Len(LegitSeq) |-> RMul(suc[LegitSeq[k]], REVENUE_BY_TYPE[LegitSeq[k]])])

FinishTick ==
    /\ pc = "finish"
    /\ LET successful == SumOver(sim.suc, LegitSeq)
           failed == SumOver(sim.fail, LegitSeq)
           legitIncoming == sim.totalIncoming - sim.attackVolume
           latencyMs == LatencyMs(sim.lat, sim.nodesContributingToLatency,
                                  "global_accelerator" \in metrics.unlockedTech)
           p95 == P95LatencyMs(latencyMs, sim.maxNodeLoadFactor)
       IN  metrics' = [metrics EXCEPT
              !.responseCodes["200"] = successful,
              !.activeUsers = sim.totalIncoming,
              !.revenuePerSec = Revenue(sim.suc),
              !.techPoints = RAdd(@, RMul(successful, TECH_POINTS_PER_SUCCESS)),
              !.successfulRequests = successful,
              !.failedRequests = failed,
              !.totalRequests = sim.totalIncoming,
              !.uptime = Uptime(successful, legitIncoming),
              !.latencyMs = latencyMs,
              !.p95LatencyMs = p95,
              !.userSatisfaction = UserSatisfaction(@, failed, sim.fail["ATTACK"],
                                                    legitIncoming, p95),
              !.requestsByType = [t \in ReqTypes |->
                                    [successful |-> sim.suc[t], failed |-> sim.fail[t]]]]
    /\ pc' = "idle"
    /\ scene' = [scene EXCEPT !.phase = IF @ = "tick" THEN "billing" ELSE @]
    /\ UNCHANGED <<nodes, connections, adjacencyMap, simBufferCurrent, simBufferNext,
                   currentBaseTraffic, isUnderAttack, sim, last, ticks, emitted>>

\* The fields of a newly constructed scene (lines 92-130); phase is the
\* position inside update ("idle" outside), effectiveDelta its local; upgraded
\* is the node of the last upgrade that went through and is still booting,
\* sinceUpgrade the scaled time update has counted since; sinceAttackEnd is
\* the scaled time counted since the last DDoS episode ended, -1 before the
\* first one has; sincePhaseStart is the scaled time handleWaveLogic has counted
\* since the wave phase began, -1 where the phase began before the behaviour;
\* sinceScaling is the scaled time counted since an AutoscalingGroup last
\* changed its number of instances, -1 before the first change.
NewScene ==
    [simulationSpeed |-> 0, isPaused |-> TRUE,
     waveCountdownTimer |-> 30000, currentWaveVolume |-> Zero,
     attackTimer |-> 0, attackCooldownTimer |-> 0,
     tickAccumulator |-> 0, billingAccumulator |-> 0,
     selectedNodeId |-> NONE, connectingNodeId |-> NONE,
     phase |-> "idle", effectiveDelta |-> 0,
     upgraded |-> NONE, sinceUpgrade |-> 0, sinceAttackEnd |-> -1,
     sincePhaseStart |-> 0, sinceScaling |-> -1]

\* No callback invoked.
NoEmission ==
    [insufficientFunds |-> FALSE, event |-> NONE, message |-> NONE, nodeSelect |-> FALSE,
     redraw |-> FALSE]

\* logEvent(message, type): the type, and the words the message starts with.
Logged(message, type) == [NoEmission EXCEPT !.event = type, !.message = message]

\* createInitialMetrics
createInitialMetrics ==
    [cash |-> R(3000), techPoints |-> Zero, revenuePerSec |-> Zero, opexPerSec |-> Zero,
     uptime |-> R(100), userSatisfaction |-> R(100), totalRequests |-> 0,
     successfulRequests |-> Zero, failedRequests |-> Zero, latencyMs |-> 20,
     p95LatencyMs |-> 20, activeUsers |-> 50, isUnderAttack |-> FALSE,
     attackTimeLeft |-> 0, currentWave |-> 0, waveStatus |-> "peace",
     waveCountdown |-> 30,
     requestsByType |-> [t \in ReqTypes |-> [successful |-> Zero, failed |-> Zero]],
     responseCodes |-> ZeroCodes,
     unlockedTech |-> {}]

-----------------------------------------------------------------------------
(* Engine states the settlement pass is started from.                      *)
(*                                                                         *)
(* A topology is what the editor operations build: nodes made by addNode,  *)
(* then changed by externalSetAlgorithm, externalSetDbRole and             *)
(* externalUpgradeNode; currentLoad, totalServed and cacheHitRate are what *)
(* earlier ticks left behind; a node is down after a chaos failure and     *)
(* booting after a repair or during an upgrade.                            *)

REPAIR_TIME_MS == 20000

N(id, type) == NodeData(id, type, NONE, "A", FALSE)
Edge(s, t) == [sourceId |-> s, targetId |-> t]
Topo(ns, es) == [nodes |-> ns, edges |-> es]
Src == N("internet-1", INTERNET)

\* Source only
TopoSourceOnly == {Topo(<<Src>>, <<>>)}

\* Source -> Compute -> SQL database
TopoComputeDb ==
    {Topo(<<Src, [N("compute-1", COMPUTE) EXCEPT !.tier = tier],
            [N("database-1", DATABASE) EXCEPT !.dbRole = role]>>,
          <<Edge("internet-1", "compute-1"), Edge("compute-1", "database-1")>>)
       : tier \in {"T1", "T2"}, role \in {PRIMARY, REPLICA}}

\* Source -> Compute -> {SQL replica, NoSQL database, Cache}: no primary.
TopoComputeNoPrimary ==
    {Topo(<<Src, N("compute-1", COMPUTE),
            [N("database-1", DATABASE) EXCEPT !.dbRole = REPLICA],
            N("database_nosql-1", DATABASE_NOSQL),
            N("cache-1", CACHE)>>,
          <<Edge("internet-1", "compute-1"), Edge("compute-1", "database-1"),
            Edge("compute-1", "database_nosql-1"), Edge("compute-1", "cache-1")>>)}

LoadPairs == {<<R(0), R(0)>>, <<R(10), R(90)>>, <<R(100), R(100)>>}

\* Source -> LoadBalancer -> two Compute nodes
TopoBalancer(algos, pairs) ==
    {Topo(<<Src, [N("load_balancer-1", LOAD_BALANCER) EXCEPT !.algorithm = algo],
            [N("compute-1", COMPUTE) EXCEPT !.currentLoad = lp[1]],
            [N("compute-2", COMPUTE) EXCEPT !.currentLoad = lp[2], !.az = "B"]>>,
          <<Edge("internet-1", "load_balancer-1"),
            Edge("load_balancer-1", "compute-1"),
            Edge("load_balancer-1", "compute-2")>>)
       : algo \in algos, lp \in pairs}

\* totalServed of a CDN and the hit rate it computed from it
CdnWarmth(cdnTier, served) ==
    RMul(CDN_TIERS[cdnTier].maxHitRate, RDiv(served, RAdd(served, R(CDN_WARMUP_CONSTANT))))

\* Source -> CDN, with and without a Storage child
TopoCdn(served, links) ==
    {Topo(<<Src, [N("cdn-1", CDN) EXCEPT !.cdnTier = ct, !.totalServed = served,
                                         !.cacheHitRate = CdnWarmth(ct, served)],
            N("storage-1", STORAGE)>>,
          <<Edge("internet-1", "cdn-1")>> \o
            (IF linked THEN <<Edge("cdn-1", "storage-1")>> ELSE <<>>))
       : ct \in {"EDGE_BASIC", "EDGE_ENTERPRISE"}, linked \in links}

\* Source -> LoadBalancer (weighted) -> {large Compute, small Compute -> Cache}
TopoWeighted ==
    {Topo(<<Src, [N("load_balancer-1", LOAD_BALANCER) EXCEPT !.algorithm = WEIGHTED_ROUND_ROBIN],
            [N("compute-1", COMPUTE) EXCEPT !.tier = "T2"],
            N("compute-2", COMPUTE),
            N("cache-1", CACHE)>>,
          <<Edge("internet-1", "load_balancer-1"),
            Edge("load_balancer-1", "compute-1"),
            Edge("load_balancer-1", "compute-2"),
            Edge("compute-2", "cache-1")>>)}

\* Source -> LoadBalancer -> {CDN, idle Compute, loaded SQL replica}
TopoReplicaBehindBalancer(algos) ==
    {Topo(<<Src, [N("load_balancer-1", LOAD_BALANCER) EXCEPT !.algorithm = algo],
            N("cdn-1", CDN), N("compute-1", COMPUTE),
            [N("database-1", DATABASE) EXCEPT !.dbRole = REPLICA, !.currentLoad = R(90)]>>,
          <<Edge("internet-1", "load_balancer-1"),
            Edge("load_balancer-1", "cdn-1"),
            Edge("load_balancer-1", "compute-1"),
            Edge("load_balancer-1", "database-1")>>)
       : algo \in algos}

\* Source -> Firewall -> WAF -> Compute -> {Cache, primary, replica, NoSQL, Storage}
TopoFullStack ==
    {Topo(<<Src, N("firewall-1", FIREWALL), N("waf-1", WAF),
            [N("compute-1", COMPUTE) EXCEPT !.tier = "T2"],
            [N("cache-1", CACHE) EXCEPT !.totalServed = R(15000), !.cacheHitRate = <<3, 4>>],
            N("database-1", DATABASE),
            [N("database-2", DATABASE) EXCEPT !.dbRole = REPLICA],
            N("database_nosql-1", DATABASE_NOSQL),
            [N("storage-1", STORAGE) EXCEPT !.az = "B"]>>,
          <<Edge("internet-1", "firewall-1"), Edge("firewall-1", "waf-1"),
            Edge("waf-1", "compute-1"), Edge("compute-1", "cache-1"),
            Edge("compute-1", "database-1"), Edge("compute-1", "database-2"),
            Edge("compute-1", "database_nosql-1"), Edge("compute-1", "storage-1")>>)}

\* Source -> LoadBalancer <-> LoadBalancer (a cycle)
TopoCycle ==
    {Topo(<<Src, N("load_balancer-1", LOAD_BALANCER), N("load_balancer-2", LOAD_BALANCER)>>,
          <<Edge("internet-1", "load_balancer-1"),
            Edge("load_balancer-1", "load_balancer-2"),
            Edge("load_balancer-2", "load_balancer-1")>>)}

\* The cycle with the Random policy on the first LoadBalancer.
TopoCycleRandom ==
    {[t EXCEPT !.nodes[2].algorithm = RANDOM] : t \in TopoCycle}

\* Source -> {CDN, LoadBalancer (least connection) -> {Compute, busy LoadBalancer
\* (round robin) -> {Compute, Firewall}}}: the second balancer gets 1/401 of the
\* dynamic volume and passes half of that on to the Firewall, or all of it
\* when the Firewall is its only child.
TopoTrickle ==
    {Topo(<<Src, N("cdn-1", CDN),
            [N("load_balancer-1", LOAD_BALANCER) EXCEPT !.algorithm = LEAST_CONNECTION],
            N("compute-1", COMPUTE),
            [N("load_balancer-2", LOAD_BALANCER) EXCEPT !.currentLoad = R(95)],
            N("firewall-1", FIREWALL)>>,
          <<Edge("internet-1", "cdn-1"), Edge("internet-1", "load_balancer-1"),
            Edge("load_balancer-1", "compute-1"), Edge("load_balancer-1", "load_balancer-2")>>
          \o below)
       : below \in {<<Edge("load_balancer-2", "compute-1"),
                      Edge("load_balancer-2", "firewall-1")>>,
                    <<Edge("load_balancer-2", "firewall-1")>>}}

\* A chain: Source -> ApiGateway -> five LoadBalancers -> Compute, the Compute
\* node seven edges away from the Source.
TopoChain ==
    {Topo(<<Src, N("api_gateway-1", API_GATEWAY), N("load_balancer-1", LOAD_BALANCER),
            N("load_balancer-2", LOAD_BALANCER), N("load_balancer-3", LOAD_BALANCER),
            N("load_balancer-4", LOAD_BALANCER), N("load_balancer-5", LOAD_BALANCER),
            N("compute-1", COMPUTE)>>,
          <<Edge("internet-1", "api_gateway-1"), Edge("api_gateway-1", "load_balancer-1"),
            Edge("load_balancer-1", "load_balancer-2"),
            Edge("load_balancer-2", "load_balancer-3"),
            Edge("load_balancer-3", "load_balancer-4"),
            Edge("load_balancer-4", "load_balancer-5"),
            Edge("load_balancer-5", "compute-1")>>)}

\* Source -> AutoscalingGroup -> {CDN, Compute -> Storage}
TopoAutoscaling ==
    {Topo(<<Src, [N("autoscaling_group-1", AUTOSCALING_GROUP) EXCEPT !.currentLoad = load],
            N("cdn-1", CDN), N("compute-1", COMPUTE), N("storage-1", STORAGE)>>,
          <<Edge("internet-1", "autoscaling_group-1"),
            Edge("autoscaling_group-1", "cdn-1"),
            Edge("autoscaling_group-1", "compute-1"),
            Edge("compute-1", "storage-1")>>)
       : load \in {R(0), R(90)}}

\* Source -> {Compute, Load balancer -> Compute}, Compute -> SQL primary: the
\* Compute node is reached by a path of one edge and by a path of two.
TopoDiamond ==
    {Topo(<<Src, N("load_balancer-1", LOAD_BALANCER), N("compute-1", COMPUTE),
            N("database-1", DATABASE)>>,
          <<Edge("internet-1", "compute-1"), Edge("internet-1", "load_balancer-1"),
            Edge("load_balancer-1", "compute-1"), Edge("compute-1", "database-1")>>)}

\* runChaosMonkey can take down an active, non-managed, non-Source node.
CanFail(n) == ~n.isManaged /\ n.type # INTERNET
\* A node boots after a repair, or during an upgrade (Compute and CDN in the editor).
CanBoot(n) == CanFail(n) \/ n.type \in {COMPUTE, CDN}

Down(n) == [n EXCEPT !.status = "down", !.failureTimeLeft = REPAIR_TIME_MS]
Booting(n) == [n EXCEPT !.status = "booting", !.isUpgrading = TRUE]

\* The node tables in which at most one node of ns is not active.
Degraded(ns) ==
    {ns} \cup {[ns EXCEPT ![k] = Down(ns[k])] : k \in {j \in 1..Len(ns) : CanFail(ns[j])}}
         \cup {[ns EXCEPT ![k] = Booting(ns[k])] : k \in {j \in 1..Len(ns) : CanBoot(ns[j])}}

\* Math.sin(time * 0.2) and Math.random() as drawn by one tick
Sines == {R(-1), R(0)}
Randoms == {R(0), <<1, 2>>}

\* Number of settlement passes of one behaviour
MaxTicks == 1

\* The starting situations: topologies, currentBaseTraffic, attack in progress,
\* unlocked technologies, and whether one node may be down or booting.
Family(topos, bases, attacks, techs, degrade) ==
    [topos |-> topos, bases |-> bases, attacks |-> attacks, techs |-> techs,
     degrade |-> degrade]

Families ==
    {Family(TopoSourceOnly, {R(10), R(100), R(1000)}, BOOLEAN, {{}}, FALSE),
     Family(TopoComputeDb, {R(10), R(100), R(1000)}, BOOLEAN, {{}}, TRUE),
     Family(TopoBalancer(LoadBalancerAlgo, LoadPairs), {R(10), R(100)}, {FALSE}, {{}}, FALSE),
     Family(TopoBalancer(LoadBalancerAlgo \ {LEAST_RESPONSE_TIME}, LoadPairs),
            {R(10)}, {TRUE}, {{}}, FALSE),
     Family(TopoBalancer(LoadBalancerAlgo, {<<R(10), R(90)>>}), {R(100)}, {FALSE}, {{}}, TRUE),
     Family(TopoCdn(R(0), {FALSE}), {R(10), R(1000)}, BOOLEAN, {{}}, TRUE),
     Family(TopoCdn(<<39997, 2>>, {TRUE}), {R(10)}, BOOLEAN, {{}}, TRUE),
     Family(TopoCdn(<<759997, 2>>, {TRUE}), {R(10)}, BOOLEAN, {{}}, TRUE),
     Family(TopoWeighted, {R(10), R(100)}, {FALSE}, {{}}, TRUE),
     Family(TopoWeighted, {R(10)}, {TRUE}, {{}}, TRUE),
     Family(TopoReplicaBehindBalancer({ROUND_ROBIN, LEAST_CONNECTION}),
            {R(10), R(100)}, {FALSE}, {{}}, TRUE),
     Family(TopoReplicaBehindBalancer({ROUND_ROBIN}), {R(1000)}, {TRUE}, {{}}, FALSE),
     Family(TopoFullStack, {R(10), R(1000)}, BOOLEAN, {{}}, TRUE),
     Family(TopoFullStack, {R(10)}, BOOLEAN, {{"shield_advanced"}}, TRUE),
     Family(TopoCycle, {R(10), R(100)}, BOOLEAN, {{}}, TRUE),
     Family(TopoAutoscaling, {R(100), R(1000)}, {FALSE}, {{}}, TRUE),
     Family(TopoTrickle, {R(10)}, {TRUE}, {{}}, FALSE),
     Family(TopoChain, {R(100)}, {FALSE}, {{}}, FALSE),
     Family(TopoCycleRandom, {R(10)}, {FALSE}, {{}}, FALSE),
     Family(TopoComputeNoPrimary, {R(10)}, {FALSE}, {{}}, FALSE),
     Family(TopoDiamond, {R(100), R(1000)}, {FALSE}, {{}}, FALSE)}

Buffers(ns) == [id \in {ns[k].id : k \in 1..Len(ns)} |-> ZeroMix]

\* What a tick that ended at the round cap leaves behind: volume still going
\* round a cycle, in the current and in the next buffers alike.
Residue(ns) ==
    [id \in {ns[k].id : k \in 1..Len(ns)} |->
        IF TypeOf(ns, id) = INTERNET THEN ZeroMix ELSE [ZeroMix EXCEPT !["WEB"] = R(3)]]

StartBuffers(topo) ==
    IF topo \in TopoCycle THEN {Buffers(topo.nodes), Residue(topo.nodes)}
    ELSE {Buffers(topo.nodes)}

Init ==
    /\ \E f \in Families :
          /\ \E topo \in f.topos :
                /\ nodes \in (IF f.degrade THEN Degraded(topo.nodes) ELSE {topo.nodes})
                /\ connections = topo.edges
                /\ adjacencyMap = rebuildAdjacency(topo.edges)
                /\ simBufferCurrent \in StartBuffers(topo)
                /\ simBufferNext = simBufferCurrent
          /\ isUnderAttack \in f.attacks
          /\ metrics \in {[createInitialMetrics EXCEPT !.isUnderAttack = isUnderAttack,
                                                       !.unlockedTech = tech]
                            : tech \in f.techs}
          /\ currentBaseTraffic \in f.bases
    /\ sim = NoSim
    /\ last = NoLast
    /\ pc = "idle"
    /\ ticks = 0
    /\ scene = NewScene
    /\ emitted = NoEmission

\* The Math.random() draws of the node about to be processed: one per child.
Draws ==
    IF pc = "node" /\ sim.i <= Len(nodes) /\ nodes[sim.i].algorithm = RANDOM
    THEN [1..Len(ChildrenIds(adjacencyMap, nodes[sim.i].id)) -> Randoms]
    ELSE {<<>>}

\* The passes followed from the present state.  One pass where the next one
\* computes with numbers wider than 32 bits: a CDN that forwards misses to a
\* Storage node or a Cache (hit rate totalServed / (totalServed + constant)),
\* and a balancer whose weights square or invert the loads of the previous pass.
Passes ==
    IF \/ \E k \in 1..Len(connections) :
             /\ TypeOf(nodes, connections[k].sourceId) = CDN
             /\ TypeOf(nodes, connections[k].targetId) = STORAGE
       \/ \E k \in 1..Len(nodes) :
             \/ nodes[k].type = CACHE
             \/ nodes[k].algorithm \in {LEAST_CONNECTION, WEIGHTED_LEAST_CONNECTION,
                                        LEAST_RESPONSE_TIME}
    THEN 1 ELSE MaxTicks

Next ==
    \/ \E sine \in Sines, rnd \in Randoms : ticks < Passes /\ TickStart(sine, rnd)
    \/ BeginRound
    \/ \E rnds \in Draws : ProcessNode(rnds)
    \/ EndRound
    \/ FinishTick

Spec == Init /\ [][Next]_vars

-----------------------------------------------------------------------------
(* Positions of the settlement pass the properties below refer to.         *)

\* The loop body is about to run for node number sim.i, which has a buffer.
NodeStep ==
    /\ pc = "node"
    /\ sim.i <= Len(nodes)
    /\ nodes[sim.i].id \in DOMAIN simBufferCurrent

\* runTrafficSimulation has returned at least once.
TickEnded == pc = "idle" /\ ticks > 0

\* The for-loop was left through "if (!trafficMoved) break".
EndedBeforeCap == TickEnded /\ ~sim.trafficMoved

\* totalIncoming - attackVolume: the legitimate volume seeded at the Source nodes.
LegitSeeded == sim.totalIncoming - sim.attackVolume

\* No current buffer holds more than the 0.1 threshold.
Settled ==
    \A id \in DOMAIN simBufferCurrent : RLe(MixTotal(simBufferCurrent[id]), <<1, 10>>)

StorageChild(id) ==
    \E k \in 1..Len(ChildrenIds(adjacencyMap, id)) :
        TypeOf(nodes, ChildrenIds(adjacencyMap, id)[k]) = STORAGE

\* The node kinds handled by the final else-branch of the policy chain.
GenericRouter(n) ==
    n.type \notin {CDN, COMPUTE, CACHE, DATABASE, DATABASE_NOSQL, STORAGE}

\* The active non-CDN children of node id, in connection order.
HealthyOf(id) ==
    SelectSeq(ChildrenIds(adjacencyMap, id),
              LAMBDA tid : /\ HasNode(nodes, tid)
                           /\ TypeOf(nodes, tid) # CDN
                           /\ nodeDataMap(nodes, tid).status = "active")

-----------------------------------------------------------------------------
(* Properties.                                                             *)

\* C1: whenever the settlement loop has ended before the round cap, the
\* successful plus the failed volume of the five legitimate request types
\* equals the legitimate volume seeded at the Source nodes for that tick.
C1_Conservation ==
    EndedBeforeCap =>
        RAdd(SumOver(sim.suc, LegitSeq), SumOver(sim.fail, LegitSeq)) = R(LegitSeeded)

C3_CdnWithoutStorage ==
    [][ /\ \A k \in 1..Len(nodes) :
              (nodes[k].type = CDN /\ ~StorageChild(nodes[k].id))
                 => ~nodes'[k].hasStorageConnection
        /\ (NodeStep /\ nodes[sim.i].type = CDN /\ ~StorageChild(nodes[sim.i].id)
              /\ last'.outcome = "routed") =>
              /\ metrics'.responseCodes["503"] =
                    RAdd(metrics.responseCodes["503"], MixTotal(last'.adm))
              /\ sim'.fail = MixAdd(sim.fail, last'.input)
              /\ sim'.suc = sim.suc
              /\ simBufferNext' = simBufferNext ]_vars

\* An active CDN without a Storage child has just turned admitted volume into 503.
C3_Witness ==
    /\ last.outcome = "routed"
    /\ TypeOf(nodes, last.id) = CDN
    /\ ~StorageChild(last.id)
    /\ RGt(MixTotal(last.adm), Zero)
    /\ RGe(metrics.responseCodes["503"], MixTotal(last.adm))
    /\ ~nodeDataMap(nodes, last.id).hasStorageConnection

C5_RoundRobinShares ==
    [][ (NodeStep /\ last'.outcome = "routed" /\ GenericRouter(nodes[sim.i])
           /\ nodes[sim.i].algorithm \in {ROUND_ROBIN, NONE}) =>
           LET healthy == HealthyOf(nodes[sim.i].id)
               n == Len(healthy)
           IN  \A k \in 1..n : \A t \in DynamicTypes :
                  simBufferNext'[healthy[k]][t] =
                     RAdd(simBufferNext[healthy[k]][t], RMul(last'.adm[t], Frac(1, n))) ]_vars

\* A round-robin balancer with two active children has just given each of them
\* half of the Web volume it admitted.
C5_Witness ==
    /\ last.outcome = "routed"
    /\ TypeOf(nodes, last.id) = LOAD_BALANCER
    /\ nodeDataMap(nodes, last.id).algorithm = ROUND_ROBIN
    /\ Len(HealthyOf(last.id)) = 2
    /\ RGt(last.adm["WEB"], Zero)
    /\ \A k \in 1..2 :
          simBufferNext[HealthyOf(last.id)[k]]["WEB"] = RMul(last.adm["WEB"], <<1, 2>>)

\* C6: when a least-connection router is processed, each active non-CDN child
\* gets the share max(1, 100 - currentLoad)^2 / (sum of these weights) of each
\* admitted dynamic type; children at loads 10 and 90 get volumes in the ratio
\* 8100 : 100, the child at load 10 strictly more.
C6_LeastConnectionShares ==
    [][ (NodeStep /\ last'.outcome = "routed" /\ GenericRouter(nodes[sim.i])
           /\ nodes[sim.i].algorithm = LEAST_CONNECTION) =>
           LET healthy == HealthyOf(nodes[sim.i].id)
               n == Len(healthy)
               load(k) == nodeDataMap(nodes, healthy[k]).currentLoad
               free(k) == RMax(One, RSub(R(100), load(k)))
               w(k) == RMul(free(k), free(k))
               total == RSumSeq([k \in 1..n |-> w(k)])
               got(k, t) == RSub(simBufferNext'[healthy[k]][t], simBufferNext[healthy[k]][t])
           IN  \A k \in 1..n : \A t \in DynamicTypes :
                  /\ got(k, t) = RMul(last'.adm[t], RDiv(w(k), total))
                  /\ \A j \in 1..n :
                        (load(k) = R(10) /\ load(j) = R(90)) =>
                           /\ RMul(got(k, t), R(100)) = RMul(got(j, t), R(8100))
                           /\ RGt(last'.adm[t], Zero) => RGt(got(k, t), got(j, t)) ]_vars

\* A least-connection balancer with children at loads 10 and 90 has just sent
\* 81 times as much Web volume to the first as to the second.
C6_Witness ==
    /\ last.outcome = "routed"
    /\ TypeOf(nodes, last.id) = LOAD_BALANCER
    /\ nodeDataMap(nodes, last.id).algorithm = LEAST_CONNECTION
    /\ HealthyOf(last.id) = <<"compute-1", "compute-2">>
    /\ nodeDataMap(nodes, "compute-1").currentLoad = R(10)
    /\ nodeDataMap(nodes, "compute-2").currentLoad = R(90)
    /\ RGt(simBufferNext["compute-2"]["WEB"], Zero)
    /\ simBufferNext["compute-1"]["WEB"] = RMul(R(81), simBufferNext["compute-2"]["WEB"])

\* currentBaseTraffic of a new game.
FreshBaseTraffic == 100

\* The first tick of a new game whose only node is the Source has ended.
FreshSourceOnlyTick ==
    /\ TickEnded
    /\ ticks = 1
    /\ Len(nodes) = 1
    /\ nodes[1].type = INTERNET
    /\ ~isUnderAttack
    /\ currentBaseTraffic = NextBaseTraffic(createInitialMetrics.userSatisfaction,
                                            R(FreshBaseTraffic))

\* C7 (as stated): after the first tick of the fresh Source-only topology the
\* total incoming volume is about 10 (the clamp floor), all of it is recorded
\* as response code 503, and uptime is 100.
C7_FreshTickAtFloor ==
    FreshSourceOnlyTick =>
        /\ metrics.totalRequests \in 9..11
        /\ metrics.responseCodes["503"] = R(metrics.totalRequests)
        /\ metrics.uptime = R(100)

\* C7 (amended): after the first tick of the fresh Source-only topology the
\* total incoming volume lies between 87 and 112 (base traffic 100.15 with the
\* daily cycle and the noise, far above the clamp floor of 10), all of it is
\* recorded as response code 503, nothing is successful, and uptime is 0.
C7_FreshTickAllUnavailable ==
    FreshSourceOnlyTick =>
        /\ metrics.totalRequests \in 87..112
        /\ metrics.responseCodes["503"] = R(metrics.totalRequests)
        /\ metrics.failedRequests = R(metrics.totalRequests)
        /\ metrics.successfulRequests = Zero
        /\ metrics.uptime = Zero

\* The first tick of the fresh Source-only topology has ended with 100 requests,
\* all of them 503.
C7_Witness ==
    /\ FreshSourceOnlyTick
    /\ metrics.totalRequests = 100
    /\ metrics.responseCodes["503"] = R(100)

\* Source -> Compute -> SQL primary, every node active, no attack, and the
\* seeded volume within the capacity of the Compute node and of the primary
\* (reads and searches weigh 1, writes 5: 0.95 of the seeded volume).
ComputeDbWithinCapacity ==
    /\ TickEnded
    /\ Len(nodes) = 3
    /\ nodes[1].type = INTERNET
    /\ nodes[2].type = COMPUTE
    /\ nodes[3].type = DATABASE /\ nodes[3].dbRole = PRIMARY
    /\ connections = <<Edge(nodes[1].id, nodes[2].id), Edge(nodes[2].id, nodes[3].id)>>
    /\ \A k \in 1..3 : nodes[k].status = "active"
    /\ ~isUnderAttack
    /\ LegitSeeded <= COMPUTE_TIERS[nodes[2].tier].capacity
    /\ 19 * LegitSeeded <= 20 * Capacity(nodes[3])

C9_SettledRoundIsNoOp ==
    [][ (pc = "node" /\ Settled /\ ~sim.trafficMoved) =>
           /\ nodes' = nodes
           /\ sim'.suc = sim.suc /\ sim'.fail = sim.fail
           /\ metrics'.responseCodes = metrics.responseCodes
           /\ simBufferNext' = simBufferNext
           /\ ~sim'.trafficMoved
           /\ pc' = IF sim.i > Len(nodes) THEN "finish" ELSE "node" ]_vars

\* C9 (amended): in a round in which no current buffer holds more than 0.1 and
\* nothing has moved, no step changes a node, a success or failure tally, a next
\* buffer or a response code other than 403, the round ends with nothing moved
\* and the loop ends after it; an active Firewall or WAF still attenuates the
\* attack volume of its buffer and adds the blocked part to response code 403.
C9_SettledRoundOnlyFilters ==
    [][ (pc = "node" /\ Settled /\ ~sim.trafficMoved) =>
           /\ nodes' = nodes
           /\ sim'.suc = sim.suc /\ sim'.fail = sim.fail
           /\ \A c \in ResponseCode \ {"403"} :
                 metrics'.responseCodes[c] = metrics.responseCodes[c]
           /\ simBufferNext' = simBufferNext
           /\ ~sim'.trafficMoved
           /\ pc' = IF sim.i > Len(nodes) THEN "finish" ELSE "node"
           /\ LET filtering == /\ NodeStep
                               /\ nodes[sim.i].status = "active"
                               /\ nodes[sim.i].type \in {FIREWALL, WAF}
                  attack == IF filtering
                            THEN simBufferCurrent[nodes[sim.i].id]["ATTACK"] ELSE Zero
                  kept == IF ~filtering THEN One
                          ELSE IF nodes[sim.i].type = FIREWALL
                               THEN (IF "shield_advanced" \in metrics.unlockedTech
                                     THEN <<1, 20>> ELSE <<1, 5>>)
                          ELSE (IF "shield_advanced" \in metrics.unlockedTech
                                THEN <<1, 10000>> ELSE <<1, 1000>>)
              IN  /\ metrics'.responseCodes["403"] =
                        RAdd(metrics.responseCodes["403"], RMul(attack, RSub(One, kept)))
                  /\ \A id \in DOMAIN simBufferCurrent :
                        simBufferCurrent'[id] =
                           IF filtering /\ id = nodes[sim.i].id
                           THEN [simBufferCurrent[id] EXCEPT !["ATTACK"] = RMul(attack, kept)]
                           ELSE simBufferCurrent[id] ]_vars

\* In a settled round a Firewall has just been passed over with attack volume
\* in its buffer, and nothing has moved.
C9_Witness ==
    /\ pc = "node"
    /\ Settled
    /\ ~sim.trafficMoved
    /\ last.outcome = "skipped"
    /\ TypeOf(nodes, last.id) = FIREWALL
    /\ RGt(last.blockedAttack, Zero)
    /\ RLe(MixTotal(last.input), <<1, 10>>)

\* C10: whenever a node is admitted traffic, its admission ratio lies in [0, 1],
\* response code 429 grows by (1 - ratio) x totalInput and the node's
\* droppedReqs by the same amount, its processedReqs grows by ratio x totalInput
\* (a Cache may raise it further), and no node ever has a negative droppedReqs
\* or processedReqs.
C10_AdmissionRatio ==
    [][ /\ \A k \in 1..Len(nodes) :
              /\ RGe(nodes'[k].droppedReqs, Zero)
              /\ RGe(nodes'[k].processedReqs, Zero)
        /\ (NodeStep /\ last'.outcome = "routed") =>
              LET ratio == last'.ratio
                  totalInput == last'.totalInput
                  dropped == RMul(totalInput, RSub(One, ratio))
              IN  /\ RGe(ratio, Zero) /\ RLe(ratio, One)
                  /\ RGt(totalInput, <<1, 10>>)
                  /\ ratio = IF RGt(last'.weightedInput, R(last'.capacity))
                             THEN RDiv(R(last'.capacity), last'.weightedInput) ELSE One
                  /\ metrics'.responseCodes["429"] =
                        RAdd(metrics.responseCodes["429"], dropped)
                  /\ nodes'[sim.i].droppedReqs = RAdd(nodes[sim.i].droppedReqs, dropped)
                  /\ RGe(nodes'[sim.i].processedReqs,
                         RAdd(nodes[sim.i].processedReqs, RMul(totalInput, ratio)))
                  /\ nodes[sim.i].type # CACHE =>
                        nodes'[sim.i].processedReqs =
                           RAdd(nodes[sim.i].processedReqs, RMul(totalInput, ratio)) ]_vars

\* A node over capacity has just admitted a part of its input and recorded the
\* rest as 429.
C10_Witness ==
    /\ last.outcome = "routed"
    /\ RGt(last.ratio, Zero) /\ RLt(last.ratio, One)
    /\ RGt(last.dropped, Zero)
    /\ RGe(metrics.responseCodes["429"], last.dropped)
    /\ nodeDataMap(nodes, last.id).droppedReqs = RMul(last.totalInput, RSub(One, last.ratio))

\* C15: after every tick the failed volume of the five legitimate types plus
\* the failed attack volume equals the sum of the response codes 500, 429 and
\* 503 (each failed unit is in exactly one of them).
C15_FailuresHaveCodes ==
    TickEnded =>
        RAdd(LegitTotal(sim.fail), sim.fail["ATTACK"]) =
            RAdd(RAdd(metrics.responseCodes["500"], metrics.responseCodes["429"]),
                 metrics.responseCodes["503"])

\* The bottom of a round has been reached: every node has had its turn.
RoundDone == pc = "node" /\ sim.i > Len(nodes)

\* C22 as stated: a round of the settlement loop starts only while fewer than
\* 6 rounds have run, the loop is left at the bottom of the sixth round at the
\* latest, and it is left earlier exactly when no node of the round had a
\* buffer total above 0.1 when its turn came.
C22_StopsWhenNoInputAbove ==
    [][ /\ pc = "round" => sim.step < MAX_STEPS
        /\ pc' = "round" => sim'.step < MAX_STEPS
        /\ (pc = "round" /\ pc' = "node") => ~sim'.trafficMoved
        /\ (NodeStep /\ last' # last) =>
              (sim'.trafficMoved <=>
                  (sim.trafficMoved \/ RGt(MixTotal(last'.input), THRESHOLD)))
        /\ (RoundDone /\ pc' # pc) =>
              /\ sim.step < MAX_STEPS
              /\ pc' = "finish" <=> (~sim.trafficMoved \/ sim.step + 1 = MAX_STEPS) ]_vars

\* C22, amended: as above, with the total of an active node taken after the
\* Firewall / WAF filter has attenuated the Attack volume of its buffer (the
\* total of a node that is not active is that of its buffer as it is).
C22_StopsWhenNothingAdmissible ==
    [][ /\ pc = "round" => sim.step < MAX_STEPS
        /\ pc' = "round" => sim'.step < MAX_STEPS
        /\ (pc = "round" /\ pc' = "node") => ~sim'.trafficMoved
        /\ (NodeStep /\ last' # last) =>
              /\ last'.totalInput =
                    MixTotal(IF nodes[sim.i].status = "active"
                             THEN [last'.input EXCEPT !["ATTACK"] =
                                      RSub(@, last'.blockedAttack)]
                             ELSE last'.input)
              /\ sim'.trafficMoved <=>
                    (sim.trafficMoved \/ RGt(last'.totalInput, THRESHOLD))
        /\ (RoundDone /\ pc' # pc) =>
              /\ sim.step < MAX_STEPS
              /\ pc' = "finish" <=> (~sim.trafficMoved \/ sim.step + 1 = MAX_STEPS) ]_vars

\* The loop has been left before the cap, after a round in which the only
\* node with volume was a Firewall that held more than 0.1 and less than that
\* once filtered.
C22_Witness ==
    /\ pc = "finish"
    /\ ~sim.trafficMoved
    /\ 0 < sim.step /\ sim.step < MAX_STEPS
    /\ last.outcome = "skipped"
    /\ RGt(MixTotal(last.input), THRESHOLD)
    /\ RGt(last.blockedAttack, Zero)

\* The ids of the nodes that a path of at most k edges leads to from a Source.
RECURSIVE Reach(_)
Reach(k) ==
    IF k = 0 THEN {nodes[j].id : j \in {i \in 1..Len(nodes) : nodes[i].type = INTERNET}}
    ELSE LET near == Reach(k - 1)
         IN  near \cup {connections[j].targetId :
                           j \in {i \in 1..Len(connections) :
                                     connections[i].sourceId \in near}}

\* The nodes whose shortest path from a Source has exactly k edges.
AtHops(k) ==
    LET within == Reach(k)
        nearer == IF k > 0 THEN Reach(k - 1) ELSE {}
    IN  {j \in 1..Len(nodes) : nodes[j].id \in within \ nearer}

\* C23 as stated: a node with processedReqs > 0 is at most 6 edges away from a
\* Source, and at the end of a tick an active node 6 edges away, behind an
\* active router 5 edges away that processed volume, has processedReqs > 0.
C23_ProcessedUpToSixHops ==
    /\ LET reached == Reach(MAX_STEPS)
       IN  \A k \in 1..Len(nodes) :
              RGt(nodes[k].processedReqs, Zero) => nodes[k].id \in reached
    /\ TickEnded =>
          \A k \in AtHops(MAX_STEPS) :
             (/\ nodes[k].status = "active"
              /\ nodes[k].type # CDN
              /\ \E j \in AtHops(MAX_STEPS - 1) :
                    /\ GenericRouter(nodes[j])
                    /\ Edge(nodes[j].id, nodes[k].id) \in
                          {connections[i] : i \in 1..Len(connections)}
                    /\ RGt(nodes[j].processedReqs, One)) =>
                RGt(nodes[k].processedReqs, Zero)

\* C23, amended: in every state a node with processedReqs > 0 is at most 5
\* edges away from a Source; volume written to the buffer of a node 6 edges
\* away by the sixth round is processed by no node.
C23_ProcessedUpToFiveHops ==
    LET reached == Reach(MAX_STEPS - 1)
        sofar == Reach(sim.step)
    IN  \A k \in 1..Len(nodes) :
           /\ RGt(nodes[k].processedReqs, Zero) => nodes[k].id \in reached
           /\ (pc \in {"node", "round"} /\ RGt(nodes[k].processedReqs, Zero)) =>
                 nodes[k].id \in sofar

\* A tick has ended on a chain: the node 5 edges away has processed volume,
\* the node 6 edges away holds the volume of the last round unprocessed, and
\* there is a node 7 edges away.
C23_Witness ==
    /\ TickEnded
    /\ \E k \in AtHops(MAX_STEPS - 1) : RGt(nodes[k].processedReqs, One)
    /\ \E k \in AtHops(MAX_STEPS) :
          /\ nodes[k].processedReqs = Zero
          /\ RGt(MixTotal(simBufferCurrent[nodes[k].id]), One)
    /\ AtHops(MAX_STEPS + 1) # {}

\* The loop has been left at the bottom of the sixth round.
CapHit == pc = "finish" /\ sim.step = MAX_STEPS

\* The volume per request type in the current buffers: after the last swap,
\* what the last round wrote to the next buffers.
InTransit ==
    [t \in ReqTypes |->
        RSumSeq([k \in 1..Len(nodes) |->
                    IF nodes[k].id \in DOMAIN simBufferCurrent
                    THEN simBufferCurrent[nodes[k].id][t] ELSE Zero])]

\* C24: when the loop is left at the round cap, the successful and the failed
\* volume of the five legitimate request types add up to the legitimate
\* volume seeded at the Sources less exactly the legitimate volume that the
\* last round left in the buffers.
C24_TransitIsTheOnlyShortfall ==
    CapHit =>
       RAdd(RAdd(SumOver(sim.suc, LegitSeq), SumOver(sim.fail, LegitSeq)),
            SumOver(InTransit, LegitSeq)) = R(LegitSeeded)

\* childrenIds.find(tid => type === STORAGE) of node id, in the current state.
ConnectedStorage(id) ==
    First(SelectSeq(ChildrenIds(adjacencyMap, id),
                    LAMBDA tid : TypeOf(nodes, tid) = STORAGE))

\* The request types a CDN does not serve.
CdnDynamic == <<"WEB", "DB_READ", "DB_WRITE", "DB_SEARCH">>

\* An active CDN with a Storage child is being processed.
CdnStorageStep ==
    /\ NodeStep
    /\ nodes[sim.i].type = CDN
    /\ nodes[sim.i].status = "active"
    /\ StorageChild(nodes[sim.i].id)

\* What the CDN branch does with the Attack and the Static volume it admits:
\* the Attack goes to the Storage child, and the Static volume is split into
\* hits, counted successful, and misses, sent to the Storage child.
CdnForwards ==
    LET storage == ConnectedStorage(nodes[sim.i].id)
        adm == last'.adm
    IN  /\ simBufferNext'[storage]["ATTACK"] =
              RAdd(simBufferNext[storage]["ATTACK"], adm["ATTACK"])
        /\ RAdd(RSub(sim'.suc["STATIC"], sim.suc["STATIC"]),
                RSub(simBufferNext'[storage]["STATIC"], simBufferNext[storage]["STATIC"]))
              = adm["STATIC"]
        /\ \A k \in 1..Len(CdnDynamic) :
              sim'.fail[CdnDynamic[k]] =
                 RAdd(sim.fail[CdnDynamic[k]], last'.input[CdnDynamic[k]])

DynamicSeq == <<"WEB", "DB_READ", "DB_WRITE", "DB_SEARCH", "ATTACK">>

\* An active generic router is being processed.
RouterStep ==
    /\ NodeStep
    /\ GenericRouter(nodes[sim.i])
    /\ nodes[sim.i].status = "active"

\* C28: when an active generic router (Source, LoadBalancer, APIGateway,
\* Firewall, WAF, AutoscalingGroup) is processed, the Web, DbRead, DbWrite,
\* DbSearch and Attack volume in the next buffer of every node that is not
\* active stays as it was; and when the router admits such volume and none of
\* its children other than CDNs is active, that volume is added to response
\* code 503 (together with the Static volume of a router without any child),
\* and the failed counters grow by what the router received of these types
\* (for a Firewall or WAF: what its Attack filter let through).
C28_UnhealthyChildrenGetNothing ==
    [][ RouterStep =>
           LET id == nodes[sim.i].id
               adm == last'.adm
               totalDynamic == SumOver(adm, DynamicSeq)
               orphanStatic == IF Len(ChildrenIds(adjacencyMap, id)) = 0
                               THEN adm["STATIC"] ELSE Zero
               filtered == [last'.input EXCEPT
                              !["ATTACK"] = RSub(@, last'.blockedAttack)]
           IN  /\ \A k \in 1..Len(nodes) :
                     nodes[k].status # "active" =>
                        \A t \in DynamicTypes :
                           simBufferNext'[nodes[k].id][t] = simBufferNext[nodes[k].id][t]
               /\ (RGt(totalDynamic, Zero) /\ Len(HealthyOf(id)) = 0) =>
                     /\ metrics'.responseCodes["503"] =
                           RAdd(metrics.responseCodes["503"],
                                RAdd(totalDynamic, orphanStatic))
                     /\ \A t \in DynamicTypes :
                           sim'.fail[t] = RAdd(sim.fail[t], filtered[t]) ]_vars

\* A generic router whose only child is down or booting has just turned the
\* dynamic volume it admitted into 503, and the child has received none of it.
C28_Witness ==
    /\ last.outcome = "routed"
    /\ HasNode(nodes, last.id)
    /\ GenericRouter(nodeDataMap(nodes, last.id))
    /\ Len(ChildrenIds(adjacencyMap, last.id)) > 0
    /\ Len(HealthyOf(last.id)) = 0
    /\ RGt(SumOver(last.adm, DynamicSeq), Zero)
    /\ metrics.responseCodes["503"] = SumOver(last.adm, DynamicSeq)
    /\ \A k \in 1..Len(ChildrenIds(adjacencyMap, last.id)) :
          \A t \in DynamicTypes :
             simBufferNext[ChildrenIds(adjacencyMap, last.id)[k]][t] = Zero

\* The weights the policy of router id gives its healthy children.
WeightsOf(id) ==
    LET node == nodeDataMap(nodes, id)
        algo == IF node.algorithm # NONE THEN node.algorithm ELSE ROUND_ROBIN
        healthy == HealthyOf(id)
    IN  [k \in 1..Len(healthy) |-> Weight(algo, nodeDataMap(nodes, healthy[k]))]

\* Every healthy child of router id is at 100% load or above.
AllChildrenFull(id) ==
    \A k \in 1..Len(HealthyOf(id)) :
       RGe(nodeDataMap(nodes, HealthyOf(id)[k]).currentLoad, R(100))

\* An active generic router with healthy children is being processed and
\* admits dynamic volume.
BalancingStep ==
    /\ RouterStep
    /\ Len(HealthyOf(nodes[sim.i].id)) > 0
    /\ RGt(SumOver(last'.adm, DynamicSeq), Zero)

\* C29 as stated: when a router admits dynamic volume and the weights of its
\* healthy children add up to 0, as for a LeastConnection router whose healthy
\* children are all at 100% load, that volume is added to response code 503
\* and to the failed counters.
C29_ZeroWeightIs503 ==
    [][ (/\ BalancingStep
         /\ \/ RSumSeq(WeightsOf(nodes[sim.i].id)) = Zero
            \/ /\ nodes[sim.i].algorithm = LEAST_CONNECTION
               /\ AllChildrenFull(nodes[sim.i].id)) =>
           LET filtered == [last'.input EXCEPT
                              !["ATTACK"] = RSub(@, last'.blockedAttack)]
           IN  /\ metrics'.responseCodes["503"] =
                     RAdd(metrics.responseCodes["503"], SumOver(last'.adm, DynamicSeq))
               /\ \A t \in DynamicTypes :
                     sim'.fail[t] = RAdd(sim.fail[t], filtered[t]) ]_vars

\* C29, amended: the weights of the healthy children of a router never add
\* up to 0, since every policy gives each healthy child a positive weight; a
\* router with a healthy child adds nothing to response code 503; and a
\* LeastConnection router whose healthy children are all at 100% load gives
\* each of them weight 1 and sends each an equal share of the dynamic volume
\* it admits.
C29_FullChildrenShareEqually ==
    [][ BalancingStep =>
           LET id == nodes[sim.i].id
               healthy == HealthyOf(id)
               n == Len(healthy)
               w == WeightsOf(id)
           IN  /\ \A k \in 1..n : RGt(w[k], Zero)
               /\ RGt(RSumSeq(w), Zero)
               /\ metrics'.responseCodes["503"] = metrics.responseCodes["503"]
               /\ (nodes[sim.i].algorithm = LEAST_CONNECTION /\ AllChildrenFull(id)) =>
                     /\ \A k \in 1..n : w[k] = One
                     /\ \A k \in 1..n : \A t \in DynamicTypes :
                           simBufferNext'[healthy[k]][t] =
                              RAdd(simBufferNext[healthy[k]][t],
                                   RMul(last'.adm[t], Frac(1, n))) ]_vars

\* A LeastConnection balancer whose two children are at 100% load has just
\* sent each of them half of the Web volume it admitted, and recorded no 503.
C29_Witness ==
    /\ last.outcome = "routed"
    /\ TypeOf(nodes, last.id) = LOAD_BALANCER
    /\ nodeDataMap(nodes, last.id).algorithm = LEAST_CONNECTION
    /\ Len(HealthyOf(last.id)) = 2
    /\ AllChildrenFull(last.id)
    /\ RGt(last.adm["WEB"], Zero)
    /\ metrics.responseCodes["503"] = Zero
    /\ \A k \in 1..2 :
          simBufferNext[HealthyOf(last.id)[k]]["WEB"] = RMul(last.adm["WEB"], <<1, 2>>)

\* What the step adds to the next buffer of the k-th healthy child of the
\* router being processed, for request type t.
Got(k, t) ==
    LET child == HealthyOf(nodes[sim.i].id)[k]
    IN  RSub(simBufferNext'[child][t], simBufferNext[child][t])

\* C30: whatever the policy of a router (RoundRobin, Random,
\* WeightedRoundRobin, LeastConnection, WeightedLeastConnection,
\* LeastResponseTime), what it adds to the next buffers of its healthy
\* children is never negative and adds up, for each dynamic request type, to
\* the volume of that type it admitted.
C30_SharesAddUpToOne ==
    [][ BalancingStep =>
           LET n == Len(HealthyOf(nodes[sim.i].id))
           IN  \A t \in DynamicTypes :
                  /\ \A k \in 1..n : RGe(Got(k, t), Zero)
                  /\ RSumSeq([k \in 1..n |-> Got(k, t)]) = last'.adm[t] ]_vars

\* childrenIds.find(primary SQL database) and childrenIds.find(Cache) of node id.
PrimaryChild(id) ==
    First(SelectSeq(ChildrenIds(adjacencyMap, id),
                    LAMBDA tid : TypeOf(nodes, tid) = DATABASE
                                 /\ RoleOf(nodes, tid) = PRIMARY))

CacheChild(id) ==
    First(SelectSeq(ChildrenIds(adjacencyMap, id),
                    LAMBDA tid : TypeOf(nodes, tid) = CACHE))

\* An active Compute node with more than 0.1 in its buffer is being processed.
ComputeStep ==
    /\ NodeStep
    /\ nodes[sim.i].type = COMPUTE
    /\ nodes[sim.i].status = "active"
    /\ last'.outcome = "routed"

\* What the failed counter of type t grows by beyond the volume the admission
\* step turned away.
FailedAfterAdmission(t) ==
    RSub(RSub(sim'.fail[t], sim.fail[t]), RSub(last'.input[t], last'.adm[t]))

\* C31: when an active Compute node is processed (its buffer holding more than
\* the 0.1 cut-off), the DbWrite volume of no
\* next buffer but that of its primary SQL child changes; with a primary SQL
\* child the DbWrite volume it admits is added to the next buffer of that
\* child, none of it is failed, and the invalidationPressure of its Cache
\* child, if it has one, rises by the same volume; without a primary SQL
\* child all of it is added to the failed DbWrite counter and to response
\* code 503 (which grows by exactly the admitted volume that is failed).
C31_WritesNeedPrimary ==
    [][ ComputeStep =>
           LET id == nodes[sim.i].id
               dbWrite == last'.adm["DB_WRITE"]
               sqlPrimary == PrimaryChild(id)
               cacheNode == CacheChild(id)
           IN  /\ \A nid \in DOMAIN simBufferNext :
                     nid # sqlPrimary =>
                        simBufferNext'[nid]["DB_WRITE"] = simBufferNext[nid]["DB_WRITE"]
               /\ metrics'.responseCodes["503"] =
                     RAdd(metrics.responseCodes["503"],
                          RSumSeq([k \in 1..Len(RequestType) |->
                                      FailedAfterAdmission(RequestType[k])]))
               /\ sqlPrimary # NONE =>
                     /\ simBufferNext'[sqlPrimary]["DB_WRITE"] =
                           RAdd(simBufferNext[sqlPrimary]["DB_WRITE"], dbWrite)
                     /\ FailedAfterAdmission("DB_WRITE") = Zero
                     /\ cacheNode # NONE =>
                           nodeDataMap(nodes', cacheNode).invalidationPressure =
                              RAdd(nodeDataMap(nodes, cacheNode).invalidationPressure,
                                   dbWrite)
               /\ sqlPrimary = NONE => FailedAfterAdmission("DB_WRITE") = dbWrite ]_vars

\* A Compute node with a primary SQL child and a Cache child has just
\* forwarded the DbWrite volume it admitted to the primary and raised the
\* invalidationPressure of the Cache by it.
C31_Witness ==
    /\ last.outcome = "routed"
    /\ TypeOf(nodes, last.id) = COMPUTE
    /\ PrimaryChild(last.id) # NONE
    /\ CacheChild(last.id) # NONE
    /\ RGt(last.adm["DB_WRITE"], Zero)
    /\ simBufferNext[PrimaryChild(last.id)]["DB_WRITE"] = last.adm["DB_WRITE"]
    /\ nodeDataMap(nodes, CacheChild(last.id)).invalidationPressure = last.adm["DB_WRITE"]
    /\ sim.fail["DB_WRITE"] = Zero

\* An active Firewall or WAF node is being processed.
FilterStep ==
    /\ NodeStep
    /\ nodes[sim.i].type \in {FIREWALL, WAF}
    /\ nodes[sim.i].status = "active"

\* The attenuation factor of the claim for the node being processed.
StatedFactor ==
    LET shield == "shield_advanced" \in metrics.unlockedTech
    IN  IF nodes[sim.i].type = FIREWALL
        THEN (IF shield THEN Frac(5, 100) ELSE Frac(2, 10))
        ELSE (IF shield THEN Frac(1, 10000) ELSE Frac(1, 1000))

\* C32: when an active Firewall or WAF node is processed, the Attack volume of
\* its buffer is multiplied by 0.2 (Firewall) or 0.001 (WAF), or by 0.05 or
\* 0.0001 with the security upgrade, and the other volumes of the buffer stay
\* as they are; the part removed is added to response code 403, so that the
\* blocked and the remaining Attack volume add up to the Attack volume
\* received; and the capacity check that follows sees the attenuated volume:
\* the total it compares and the volume it admits are those of the buffer
\* after the filter.
C32_AttackIsAttenuated ==
    [][ FilterStep =>
           LET id == nodes[sim.i].id
               received == simBufferCurrent[id]
               remaining == RMul(received["ATTACK"], StatedFactor)
               blocked == RSub(received["ATTACK"], remaining)
               after == [received EXCEPT !["ATTACK"] = remaining]
           IN  /\ simBufferCurrent'[id] = after
               /\ metrics'.responseCodes["403"] = RAdd(metrics.responseCodes["403"], blocked)
               /\ last'.blockedAttack = blocked
               /\ RAdd(last'.blockedAttack, simBufferCurrent'[id]["ATTACK"]) =
                     received["ATTACK"]
               /\ last'.totalInput = MixTotal(after)
               /\ last'.outcome = "routed" =>
                     /\ last'.weightedInput = MixTotal(after)
                     /\ last'.adm = MixScale(after, last'.ratio)
                     /\ nodes'[sim.i].processedReqs =
                           RAdd(nodes[sim.i].processedReqs,
                                RMul(MixTotal(after), last'.ratio)) ]_vars

\* A Firewall has just let a fifth of the Attack volume it received through
\* and recorded four fifths of it as 403, with the legitimate volume untouched.
C32_Witness ==
    /\ last.outcome = "routed"
    /\ TypeOf(nodes, last.id) = FIREWALL
    /\ "shield_advanced" \notin metrics.unlockedTech
    /\ RGt(last.input["ATTACK"], Zero)
    /\ RGt(last.input["WEB"], Zero)
    /\ last.blockedAttack = RMul(last.input["ATTACK"], <<4, 5>>)
    /\ metrics.responseCodes["403"] = last.blockedAttack
    /\ last.adm["ATTACK"] = RMul(last.input["ATTACK"], <<1, 5>>)
    /\ last.adm["WEB"] = last.input["WEB"]

\* C33: when a node admits volume in a round, it is counted among the nodes
\* contributing to the latency of the tick exactly if it has processed more
\* than 0 requests in the tick, the volume of this round included; so a node
\* is counted in the first round in which it admits volume.
C33_ProcessingNodesContribute ==
    [][ (NodeStep /\ last'.outcome = "routed") =>
           /\ sim'.nodesContributingToLatency \in
                 {sim.nodesContributingToLatency, sim.nodesContributingToLatency + 1}
           /\ (sim'.nodesContributingToLatency = sim.nodesContributingToLatency + 1)
                 <=> RGt(nodes'[sim.i].processedReqs, Zero) ]_vars

\* The failed legitimate volume and the legitimate incoming volume of the tick
\* that is being settled.
LegitFailed == SumOver(sim.fail, LegitSeq)
LegitIncoming == sim.totalIncoming - sim.attackVolume
ErrorsAbove5Percent == RGt(LegitFailed, RMul(<<1, 20>>, R(LegitIncoming)))

StatedLatencyPenalty(p95) ==
    IF p95 > 1500 THEN <<3, 10>> ELSE IF p95 > 500 THEN <<1, 10>> ELSE Zero

\* C34: in every tick, with or without an attack, userSatisfaction decreases
\* by the penalty rate (floored at 0) if the failed legitimate volume exceeds
\* 5% of the legitimate incoming volume, and otherwise changes by the recovery
\* rate minus the latency penalty (clamped to [0,100]).
C34_SatisfactionFollowsLegitErrors ==
    [][ FinishTick =>
          metrics'.userSatisfaction =
             IF ErrorsAbove5Percent
             THEN RMax(Zero, RSub(metrics.userSatisfaction, SATISFACTION_PENALTY_RATE))
             ELSE RMin(R(100), RMax(Zero,
                     RSub(RAdd(metrics.userSatisfaction, SATISFACTION_RECOVERY_RATE),
                          StatedLatencyPenalty(metrics'.p95LatencyMs)))) ]_vars

\* C34, second part: userSatisfaction stays in [0,100].
C34_SatisfactionInRange ==
    RGe(metrics.userSatisfaction, Zero) /\ RLe(metrics.userSatisfaction, R(100))

\* C38: in every tick the volume a Compute node has admitted over all rounds,
\* processedReqs, does not exceed the capacity of its tier, also when volume
\* reaches the node in several rounds.
C38_CapacityIsPerTick ==
    \A k \in 1..Len(nodes) :
       (nodes[k].type = COMPUTE /\ nodes[k].tier # NONE) =>
          RLe(nodes[k].processedReqs, R(COMPUTE_TIERS[nodes[k].tier].capacity))

\* C16: at the first round of every tick the current buffer of every node that
\* is not a Source is all zero and the current buffer of every Source holds
\* exactly its share of the volume generated for this tick, whatever the
\* previous tick left behind.
C16_NothingCarriedOver ==
    (pc = "round" /\ sim.step = 0) =>
        LET sources == Cardinality({k \in 1..Len(nodes) : nodes[k].type = INTERNET})
        IN  \A k \in 1..Len(nodes) :
               simBufferCurrent[nodes[k].id] =
                  IF nodes[k].type = INTERNET
                  THEN SeedMix(Frac(LegitSeeded, sources), Frac(sim.attackVolume, sources))
                  ELSE ZeroMix

\* A tick has started over buffers that still held volume of the previous one.
C16_Witness ==
    /\ pc = "round" /\ sim.step = 0
    /\ RGt(sim.carried, Zero)
    /\ \E k \in 1..Len(nodes) :
          nodes[k].type # INTERNET /\ simBufferCurrent[nodes[k].id] = ZeroMix

\* C17: after every tick, hasStorageConnection of every CDN node is true if
\* and only if the node has a Storage child in the edge table.
C17_StorageFlagMatchesEdges ==
    TickEnded =>
        \A k \in 1..Len(nodes) :
           nodes[k].type = CDN =>
              (nodes[k].hasStorageConnection <=> StorageChild(nodes[k].id))

-----------------------------------------------------------------------------
(* Topology editor: the operations the UI calls between two frames.        *)

NODE_COSTS ==
    [INTERNET |-> 0, CDN |-> 200, WAF |-> 250, FIREWALL |-> 100,
     LOAD_BALANCER |-> 150, API_GATEWAY |-> 300, COMPUTE |-> 50, DATABASE |-> 500,
     DATABASE_NOSQL |-> 800, STORAGE |-> 200, CACHE |-> 150, AUTOSCALING_GROUP |-> 300]

\* type.toLowerCase()
LowerCase ==
    [INTERNET |-> "internet", CDN |-> "cdn", WAF |-> "waf", FIREWALL |-> "firewall",
     LOAD_BALANCER |-> "load_balancer", API_GATEWAY |-> "api_gateway",
     COMPUTE |-> "compute", DATABASE |-> "database",
     DATABASE_NOSQL |-> "database_nosql", STORAGE |-> "storage", CACHE |-> "cache",
     AUTOSCALING_GROUP |-> "autoscaling_group"]

\* uuidv4().slice(0, 4): the draws followed.
Suffixes == {"1"}

\* specificId || `${type.toLowerCase()}-${uuidv4().slice(0, 4)}`
NewId(type, uuid) == LowerCase[type] \o "-" \o uuid

\* id.startsWith('internet')
StartsWithInternet(id) == id \in {NewId(INTERNET, u) : u \in Suffixes}

\* const az = x < 400 ? 'A' : 'B'
AzOf(x) == IF x < 400 THEN "A" ELSE "B"

\* The number of edges the editor is followed up to.
MaxEdges == 2

\* What the toolbar asks for: a node type with an initial tier (or none), and
\* the horizontal position it is dropped at.
Purchases == {<<COMPUTE, "T4">>, <<COMPUTE, "T5">>, <<DATABASE_NOSQL, NONE>>}
DropXs == {100}
\* The tiers the property panel asks for; it offers them for Compute nodes
\* (the tier list shown depends on the node's type).
NewTiers == {"T4", "T5"}

\* The ids an editor call may name: those in use, and one of a node that was
\* deleted or never existed.
Ids == {nodes[k].id : k \in 1..Len(nodes)}
CallIds == Ids \cup {"compute-1"}

Between == pc = "idle" /\ scene.phase = "idle"

\* The first index of an edge sourceId -> targetId, or 0.
FindEdge(conns, s, t) ==
    IF \E k \in 1..Len(conns) : conns[k] = Edge(s, t)
    THEN CHOOSE k \in 1..Len(conns) :
            /\ conns[k] = Edge(s, t)
            /\ \A j \in 1..(k - 1) : conns[j] # Edge(s, t)
    ELSE 0

\* this.connections.filter(c => c !== exists): the found object goes, and no other.
RemoveAt(conns, i) == [k \in 1..(Len(conns) - 1) |-> IF k < i THEN conns[k] ELSE conns[k + 1]]

\* reset
Reset ==
    /\ Between
    /\ nodes' = <<NodeData("internet-1", INTERNET, NONE, AzOf(100), FALSE)>>
    /\ connections' = <<>>
    /\ adjacencyMap' = rebuildAdjacency(connections')
    /\ simBufferCurrent' = Buffers(nodes')
    /\ simBufferNext' = Buffers(nodes')
    /\ metrics' = createInitialMetrics
    /\ currentBaseTraffic' = R(100)
    /\ isUnderAttack' = FALSE
    /\ scene' = [scene EXCEPT !.waveCountdownTimer = 30000, !.currentWaveVolume = Zero,
                              !.attackTimer = 0, !.attackCooldownTimer = 0,
                              !.selectedNodeId = NONE, !.connectingNodeId = NONE,
                              !.upgraded = NONE, !.sinceUpgrade = 0,
                              !.sinceAttackEnd = -1, !.sincePhaseStart = 0,
                              !.sinceScaling = -1]
    /\ emitted' = [NoEmission EXCEPT !.nodeSelect = TRUE]
    /\ UNCHANGED <<sim, last, pc, ticks>>

\* externalAddNode: the price of a node, the tier's capex for a Compute node
\* added with a tier.
AddCost(type, initialTier) ==
    IF type = COMPUTE /\ initialTier # NONE
    THEN COMPUTE_TIERS[initialTier].capex ELSE NODE_COSTS[type]

\* externalUpgradeNode: the capex of the new tier for Compute and CDN nodes,
\* nothing for the other kinds.
UpgradeCost(node, newTier) ==
    IF node.type = COMPUTE THEN COMPUTE_TIERS[newTier].capex
    ELSE IF node.type = CDN THEN CDN_TIERS[newTier].capex
    ELSE 0

\* An add that appends without looking at the price.
ExternalAddNodeOnCredit(type, x, initialTier, uuid) ==
    LET cost == AddCost(type, initialTier)
        id == NewId(type, uuid)
    IN  /\ Between
        /\ ~HasNode(nodes, id)
        /\ metrics' = [metrics EXCEPT !.cash = RSub(@, R(cost))]
        /\ nodes' = Append(nodes, NodeData(id, type, initialTier, AzOf(x),
                                           "managed_db" \in metrics.unlockedTech))
        /\ simBufferCurrent' = [i \in DOMAIN simBufferCurrent \cup {id} |-> 
                                   IF i = id THEN ZeroMix ELSE simBufferCurrent[i]]
        /\ simBufferNext' = [i \in DOMAIN simBufferNext \cup {id} |-> 
                                IF i = id THEN ZeroMix ELSE simBufferNext[i]]
        /\ emitted' = Logged("Provisioned", "success")
        /\ UNCHANGED <<connections, adjacencyMap, currentBaseTraffic, isUnderAttack,
                       sim, last, pc, ticks, scene>>

\* externalAddNode, with the addNode it calls
ExternalAddNode(type, x, initialTier, uuid) ==
    LET cost == AddCost(type, initialTier)
        id == NewId(type, uuid)
    IN  /\ Between
        /\ ~HasNode(nodes, id)
        /\ IF RGe(metrics.cash, R(cost))
           THEN /\ metrics' = [metrics EXCEPT !.cash = RSub(@, R(cost))]
                /\ nodes' = Append(nodes, NodeData(id, type, initialTier, AzOf(x),
                                                   "managed_db" \in metrics.unlockedTech))
                /\ simBufferCurrent' = [i \in DOMAIN simBufferCurrent \cup {id} |-> 
                                           IF i = id THEN ZeroMix ELSE simBufferCurrent[i]]
                /\ simBufferNext' = [i \in DOMAIN simBufferNext \cup {id} |-> 
                                        IF i = id THEN ZeroMix ELSE simBufferNext[i]]
                /\ emitted' = Logged("Provisioned", "success")
           ELSE /\ emitted' = [Logged("Insufficient funds for", "error")
                                  EXCEPT !.insufficientFunds = TRUE]
                /\ UNCHANGED <<metrics, nodes, simBufferCurrent, simBufferNext>>
        /\ UNCHANGED <<connections, adjacencyMap, currentBaseTraffic, isUnderAttack,
                       sim, last, pc, ticks, scene>>

\* A delete that leaves the edges of the node in the edge table.
ExternalDeleteNodeKeepingEdges(id) ==
    /\ Between
    /\ ~StartsWithInternet(id)
    /\ nodes' = SelectSeq(nodes, LAMBDA n : n.id # id)
    /\ simBufferCurrent' = [i \in DOMAIN simBufferCurrent \ {id} |-> simBufferCurrent[i]]
    /\ simBufferNext' = [i \in DOMAIN simBufferNext \ {id} |-> simBufferNext[i]]
    /\ adjacencyMap' = rebuildAdjacency(connections)
    /\ scene' = [scene EXCEPT !.selectedNodeId = IF @ = id THEN NONE ELSE @]
    /\ emitted' = [(IF HasNode(nodes, id) THEN Logged("Decommissioned", "info")
                     ELSE NoEmission)
                      EXCEPT !.nodeSelect = (scene.selectedNodeId = id)]
    /\ UNCHANGED <<connections, metrics, currentBaseTraffic, isUnderAttack, sim, last,
                   pc, ticks>>

\* externalDeleteNode
ExternalDeleteNode(id) ==
    /\ Between
    /\ ~StartsWithInternet(id)
    /\ nodes' = SelectSeq(nodes, LAMBDA n : n.id # id)
    /\ simBufferCurrent' = [i \in DOMAIN simBufferCurrent \ {id} |-> simBufferCurrent[i]]
    /\ simBufferNext' = [i \in DOMAIN simBufferNext \ {id} |-> simBufferNext[i]]
    /\ connections' = SelectSeq(connections, LAMBDA c : c.sourceId # id /\ c.targetId # id)
    /\ adjacencyMap' = rebuildAdjacency(connections')
    /\ scene' = [scene EXCEPT !.selectedNodeId = IF @ = id THEN NONE ELSE @]
    /\ emitted' = [(IF HasNode(nodes, id) THEN Logged("Decommissioned", "info")
                     ELSE NoEmission)
                      EXCEPT !.nodeSelect = (scene.selectedNodeId = id)]
    /\ UNCHANGED <<metrics, currentBaseTraffic, isUnderAttack, sim, last, pc, ticks>>

\* externalDisconnect
ExternalDisconnect(sourceId, targetId) ==
    LET exists == FindEdge(connections, sourceId, targetId)
    IN  /\ Between
        /\ exists # 0
        /\ connections' = RemoveAt(connections, exists)
        /\ adjacencyMap' = rebuildAdjacency(connections')
        /\ emitted' = NoEmission
        /\ UNCHANGED <<nodes, simBufferCurrent, simBufferNext, metrics,
                       currentBaseTraffic, isUnderAttack, sim, last, pc, ticks, scene>>

\* A connect that draws a new edge whether or not the pair has one.
ToggleConnectionAlwaysAdding(sourceId, targetId) ==
    /\ Between
    /\ connections' = Append(connections, Edge(sourceId, targetId))
    /\ emitted' = Logged("Link established", "success")
    /\ adjacencyMap' = rebuildAdjacency(connections')
    /\ UNCHANGED <<nodes, simBufferCurrent, simBufferNext, metrics, currentBaseTraffic,
                   isUnderAttack, sim, last, pc, ticks, scene>>

\* toggleConnection
ToggleConnection(sourceId, targetId) ==
    LET exists == FindEdge(connections, sourceId, targetId)
    IN  /\ Between
        /\ IF exists # 0
           THEN /\ connections' = RemoveAt(connections, exists)
                /\ emitted' = Logged("Link removed", "warn")
           ELSE /\ connections' = Append(connections, Edge(sourceId, targetId))
                /\ emitted' = Logged("Link established", "success")
        /\ adjacencyMap' = rebuildAdjacency(connections')
        /\ UNCHANGED <<nodes, simBufferCurrent, simBufferNext, metrics,
                       currentBaseTraffic, isUnderAttack, sim, last, pc, ticks, scene>>

\* externalUpgradeNode
ExternalUpgradeNode(id, newTier) ==
    LET node == nodeDataMap(nodes, id)
        cost == UpgradeCost(node, newTier)
    IN  /\ Between
        /\ HasNode(nodes, id)
        /\ IF RGe(metrics.cash, R(cost))
           THEN /\ metrics' = [metrics EXCEPT !.cash = RSub(@, R(cost))]
                /\ nodes' = SetNode(nodes, id,
                               [node EXCEPT !.status = "booting",
                                            !.isUpgrading = TRUE,
                                            !.upgradeProgress = Zero,
                                            !.tier = IF node.type = COMPUTE
                                                     THEN newTier ELSE @,
                                            !.cdnTier = IF node.type = CDN
                                                        THEN newTier ELSE @])
                /\ emitted' = Logged("Upgrading", "info")
                /\ scene' = [scene EXCEPT !.upgraded = id, !.sinceUpgrade = 0]
           ELSE /\ emitted' = Logged("Insufficient funds for upgrade", "error")
                /\ UNCHANGED <<metrics, nodes, scene>>
        /\ UNCHANGED <<connections, adjacencyMap, simBufferCurrent, simBufferNext,
                       currentBaseTraffic, isUnderAttack, sim, last, pc, ticks>>

\* selectNode, from a click on a node outside connect mode (null for the background)
SelectNode(id) ==
    /\ Between
    /\ scene' = [scene EXCEPT !.selectedNodeId = id]
    /\ emitted' = [NoEmission EXCEPT !.nodeSelect = TRUE]
    /\ UNCHANGED <<nodes, connections, adjacencyMap, simBufferCurrent, simBufferNext,
                   metrics, currentBaseTraffic, isUnderAttack, sim, last, pc, ticks>>

\* The scene after create(): the Source alone, nothing bought yet.
EditorInit ==
    /\ nodes = <<NodeData("internet-1", INTERNET, NONE, AzOf(100), FALSE)>>
    /\ connections = <<>>
    /\ adjacencyMap = rebuildAdjacency(connections)
    /\ simBufferCurrent = Buffers(nodes)
    /\ simBufferNext = Buffers(nodes)
    /\ metrics = createInitialMetrics
    /\ currentBaseTraffic = R(100)
    /\ isUnderAttack = FALSE
    /\ sim = NoSim
    /\ last = NoLast
    /\ pc = "idle"
    /\ ticks = 0
    /\ scene = NewScene
    /\ emitted = NoEmission

EditorNext ==
    \/ Reset
    \/ \E p \in Purchases, x \in DropXs, uuid \in Suffixes :
          ExternalAddNode(p[1], x, p[2], uuid)
    \/ \E id \in CallIds : ExternalDeleteNode(id)
    \/ \E s \in Ids, t \in Ids : ExternalDisconnect(s, t)
    \/ \E s \in Ids, t \in Ids :
          /\ s # t
          /\ Len(connections) < MaxEdges \/ FindEdge(connections, s, t) # 0
          /\ ToggleConnection(s, t)
    \/ \E id \in Ids, newTier \in NewTiers :
          TypeOf(nodes, id) = COMPUTE /\ ExternalUpgradeNode(id, newTier)
    \/ \E id \in Ids \cup {NONE} : SelectNode(id)

EditorSpec == EditorInit /\ [][EditorNext]_vars

-----------------------------------------------------------------------------
(* Properties of the editor operations.                                    *)

\* The number of edges sourceId -> targetId in an edge table.
EdgeCount(conns, s, t) == Cardinality({k \in 1..Len(conns) : conns[k] = Edge(s, t)})

\* C11: after any sequence of editor operations the edge table holds at most
\* one edge per ordered pair (sourceId, targetId); a connect on a pair without
\* an edge adds exactly one edge of that pair, a connect on a pair that has an
\* edge removes it, and no connect changes the edges of another pair.
C11_OneEdgePerPair ==
    [][ /\ \A i, j \in 1..Len(connections') : connections'[i] = connections'[j] => i = j
        /\ \A s, t \in Ids :
              (s # t /\ ToggleConnection(s, t)) =>
                 /\ EdgeCount(connections', s, t) = 1 - EdgeCount(connections, s, t)
                 /\ \A a, b \in Ids :
                       <<a, b>> # <<s, t>> =>
                          EdgeCount(connections', a, b) = EdgeCount(connections, a, b) ]_vars

\* A connect has just removed the edge of its pair and left another edge in place.
C11_Witness ==
    /\ emitted.message = "Link removed"
    /\ Len(connections) = 1
    /\ Len(nodes) = 3

\* The ids an edge table or an adjacency map mentions.
Mentioned(conns, adj) ==
    {conns[k].sourceId : k \in 1..Len(conns)} \cup {conns[k].targetId : k \in 1..Len(conns)}
    \cup DOMAIN adj \cup UNION {{adj[s][k] : k \in 1..Len(adj[s])} : s \in DOMAIN adj}

\* C12: after externalDeleteNode(id) for a node that is not a Source, the node
\* table (and with it the id lookup map), both traffic buffers, the edge table
\* and the adjacency map hold no reference to id, and every other node, every
\* other buffer and every edge that does not touch id is as it was, in the
\* order it was.
C12_DeletePurges ==
    [][ \A id \in CallIds :
           (~StartsWithInternet(id) /\ ExternalDeleteNode(id)) =>
              /\ ~HasNode(nodes', id)
              /\ id \notin DOMAIN simBufferCurrent' \cup DOMAIN simBufferNext'
              /\ id \notin Mentioned(connections', adjacencyMap')
              /\ LET keptNodes == {k \in 1..Len(nodes) : nodes[k].id # id}
                     keptEdges == {k \in 1..Len(connections) :
                                      id \notin {connections[k].sourceId,
                                                 connections[k].targetId}}
                 IN  /\ Len(nodes') = Cardinality(keptNodes)
                     /\ \A k \in keptNodes :
                           /\ nodes'[Cardinality({j \in keptNodes : j <= k})] = nodes[k]
                           /\ simBufferCurrent'[nodes[k].id] = simBufferCurrent[nodes[k].id]
                           /\ simBufferNext'[nodes[k].id] = simBufferNext[nodes[k].id]
                     /\ Len(connections') = Cardinality(keptEdges)
                     /\ \A k \in keptEdges :
                           connections'[Cardinality({j \in keptEdges : j <= k})] =
                              connections[k]
                     /\ adjacencyMap' = rebuildAdjacency(connections') ]_vars

\* A node with an edge has just been deleted, and an edge between the two
\* nodes that remain is still in the table.
C12_Witness ==
    /\ emitted.message = "Decommissioned"
    /\ Len(nodes) = 2
    /\ Len(connections) = 1
    /\ "compute-1" \notin Ids \cup Mentioned(connections, adjacencyMap)

\* C13: when cash is lower than the cost, externalAddNode and
\* externalUpgradeNode change nothing of cash, the node table (status, tier and
\* upgrade fields of the target included), the buffers and the edges, and
\* externalAddNode calls onInsufficientFunds; neither operation takes cash
\* from zero or above to below zero.
C13_NoFundsNoMutation ==
    [][ /\ \A p \in Purchases, x \in DropXs, uuid \in Suffixes :
              ExternalAddNode(p[1], x, p[2], uuid) =>
                 /\ RLt(metrics.cash, R(AddCost(p[1], p[2]))) =>
                       /\ UNCHANGED <<metrics, nodes, simBufferCurrent, simBufferNext,
                                      connections, adjacencyMap>>
                       /\ emitted'.insufficientFunds
                 /\ RGe(metrics.cash, Zero) => RGe(metrics'.cash, Zero)
        /\ \A id \in Ids, newTier \in NewTiers :
              ExternalUpgradeNode(id, newTier) =>
                 /\ RLt(metrics.cash, R(UpgradeCost(nodeDataMap(nodes, id), newTier))) =>
                       UNCHANGED <<metrics, nodes, simBufferCurrent, simBufferNext,
                                   connections, adjacencyMap>>
                 /\ RGe(metrics.cash, Zero) => RGe(metrics'.cash, Zero) ]_vars

\* An add has just been refused with less cash than the cheapest node on offer
\* costs, after earlier purchases went through.
C13_Witness ==
    /\ emitted.insufficientFunds
    /\ RLt(metrics.cash, R(800))
    /\ Len(nodes) > 1

-----------------------------------------------------------------------------
(* The frame handler: update(time, delta), in the steps between which the  *)
(* settlement pass runs.  scene.phase is "idle" between two frames,        *)
(* "chaos" after the node loop, "attack" after runChaosMonkey, "tick"      *)
(* while runTrafficSimulation runs and "billing" after it.                 *)

UPGRADE_TIME_MS == 3000
TICK_RATE == 250
SLA_PENALTY_RATE == 100

NODE_OPEX ==
    [INTERNET |-> 0, CDN |-> 8, WAF |-> 5, FIREWALL |-> 2, LOAD_BALANCER |-> 3,
     API_GATEWAY |-> 8, COMPUTE |-> 1, DATABASE |-> 12, DATABASE_NOSQL |-> 18,
     STORAGE |-> 5, CACHE |-> 6, AUTOSCALING_GROUP |-> 5]

\* Math.ceil(ms / 1000)
CeilSeconds(ms) == -((-ms) \div 1000)

\* Math.pow(b, n) for a whole n >= 0
RECURSIVE RPow(_, _)
RPow(b, n) == IF n = 0 THEN One ELSE RMul(b, RPow(b, n - 1))

\* The fields handleWaveLogic and the attack timers work on.
World == [scene |-> scene, metrics |-> metrics, base |-> currentBaseTraffic,
          attack |-> isUnderAttack, event |-> NoEmission]

\* triggerAttack; rnd is Math.random()
TriggerAttack(w, rnd) ==
    LET timer == 15000 + (rnd[1] * 15000) \div rnd[2]
    IN  [w EXCEPT !.attack = TRUE,
                  !.metrics.isUnderAttack = TRUE,
                  !.scene.attackTimer = timer,
                  !.metrics.attackTimeLeft = CeilSeconds(timer),
                  !.event = Logged("CRITICAL: DDoS Attack detected", "error")]

\* A startWave that rolls for a DDoS episode whatever the number of the wave.
StartWaveRollingAlways(w, rnd, rnd2) ==
    LET waveNum == w.metrics.currentWave + 1
        started == [w EXCEPT !.metrics.currentWave = waveNum,
                             !.metrics.waveStatus = "active",
                             !.scene.waveCountdownTimer = 45000,
                             !.scene.currentWaveVolume =
                                  RMul(R(500), RPow(<<3, 2>>, waveNum))]
        attacked == IF RLt(rnd, <<2, 5>>)
                    THEN TriggerAttack(started, rnd2) ELSE started
    IN  [attacked EXCEPT !.event = Logged("WAVE STARTED", "warn")]

\* startWave; rnd and rnd2 are its Math.random() and that of triggerAttack
StartWave(w, rnd, rnd2) ==
    LET waveNum == w.metrics.currentWave + 1
        started == [w EXCEPT !.metrics.currentWave = waveNum,
                             !.metrics.waveStatus = "active",
                             !.scene.waveCountdownTimer = 45000,
                             !.scene.currentWaveVolume =
                                  RMul(R(500), RPow(<<3, 2>>, waveNum))]
        attacked == IF waveNum > 2 /\ RLt(rnd, <<2, 5>>)
                    THEN TriggerAttack(started, rnd2) ELSE started
    IN  [attacked EXCEPT !.event = Logged("WAVE STARTED", "warn")]

\* endWave
EndWave(w) ==
    [w EXCEPT !.metrics.waveStatus = "peace",
              !.scene.waveCountdownTimer = 30000,
              !.scene.currentWaveVolume = R(100),
              !.attack = FALSE,
              !.metrics.isUnderAttack = FALSE,
              !.event = Logged("WAVE COMPLETED", "success")]

\* handleWaveLogic
HandleWaveLogic(w, delta, rnd, rnd2) ==
    LET timer == w.scene.waveCountdownTimer - delta
    IN  IF w.metrics.waveStatus = "peace"
        THEN LET counted == [w EXCEPT !.scene.waveCountdownTimer = timer,
                                      !.metrics.waveCountdown = CeilSeconds(timer)]
             IN  IF timer <= 0 THEN StartWave(counted, rnd, rnd2) ELSE counted
        ELSE LET grown == IF RLt(w.base, w.scene.currentWaveVolume)
                          THEN RAdd(w.base, RMul(RDiv(w.scene.currentWaveVolume, R(20)),
                                                 Frac(delta, 1000)))
                          ELSE w.base
                 counted == [w EXCEPT !.base = grown,
                                      !.scene.waveCountdownTimer = timer,
                                      !.metrics.waveCountdown = CeilSeconds(timer)]
             IN  IF timer <= 0 THEN EndWave(counted) ELSE counted

\* A node loop whose repair branch leaves isUpgrading as it was.
NodeFrameWithoutReboot(node, effectiveDelta) ==
    LET progress == RAdd(node.upgradeProgress,
                         RMul(Frac(effectiveDelta, UPGRADE_TIME_MS), R(100)))
        booted == IF node.isUpgrading /\ node.status = "booting"
                  THEN (IF RGe(progress, R(100))
                        THEN [node EXCEPT !.isUpgrading = FALSE, !.status = "active",
                                          !.upgradeProgress = Zero]
                        ELSE [node EXCEPT !.upgradeProgress = progress])
                  ELSE node
        left == booted.failureTimeLeft - effectiveDelta
        repaired == IF booted.failureTimeLeft > 0
                    THEN (IF left <= 0
                          THEN [booted EXCEPT !.failureTimeLeft = 0, !.status = "booting",
                                              !.upgradeProgress = Zero]
                          ELSE [booted EXCEPT !.failureTimeLeft = left, !.status = "down"])
                    ELSE booted
    IN  IF repaired.scalingCooldown > 0
        THEN [repaired EXCEPT !.scalingCooldown = @ - effectiveDelta]
        ELSE repaired

\* The body of the node loop of update (lines 750-775).
NodeFrame(node, effectiveDelta) ==
    LET progress == RAdd(node.upgradeProgress,
                         RMul(Frac(effectiveDelta, UPGRADE_TIME_MS), R(100)))
        booted == IF node.isUpgrading /\ node.status = "booting"
                  THEN (IF RGe(progress, R(100))
                        THEN [node EXCEPT !.isUpgrading = FALSE, !.status = "active",
                                          !.upgradeProgress = Zero]
                        ELSE [node EXCEPT !.upgradeProgress = progress])
                  ELSE node
        left == booted.failureTimeLeft - effectiveDelta
        repaired == IF booted.failureTimeLeft > 0
                    THEN (IF left <= 0
                          THEN [booted EXCEPT !.failureTimeLeft = 0, !.status = "booting",
                                              !.isUpgrading = TRUE,
                                              !.upgradeProgress = Zero]
                          ELSE [booted EXCEPT !.failureTimeLeft = left, !.status = "down"])
                    ELSE booted
    IN  IF repaired.scalingCooldown > 0
        THEN [repaired EXCEPT !.scalingCooldown = @ - effectiveDelta]
        ELSE repaired

\* The scaled time since the last DDoS episode ended, -1 while none has ended,
\* after a frame of effectiveDelta; it is not counted beyond the cooldown.
ATTACK_COOLDOWN_MS == 45000
Elapsed(since, effectiveDelta) ==
    IF since < 0 THEN since
    ELSE IF since + effectiveDelta >= ATTACK_COOLDOWN_MS THEN ATTACK_COOLDOWN_MS
    ELSE since + effectiveDelta

\* update, lines 744-776: handleWaveLogic and the node loop
UpdateNodes(delta, rnd, rnd2) ==
    LET effectiveDelta == delta * scene.simulationSpeed
        w == HandleWaveLogic(World, effectiveDelta, rnd, rnd2)
    IN  /\ Between
        /\ ~scene.isPaused
        /\ metrics' = w.metrics
        /\ currentBaseTraffic' = w.base
        /\ isUnderAttack' = w.attack
        /\ emitted' = w.event
        /\ nodes' = [k \in 1..Len(nodes) |-> NodeFrame(nodes[k], effectiveDelta)]
        /\ scene' = [w.scene EXCEPT !.phase = "chaos",
                                    !.effectiveDelta = effectiveDelta,
                                    !.sinceUpgrade = IF scene.upgraded # NONE
                                                     THEN @ + effectiveDelta ELSE @,
                                    !.sinceAttackEnd =
                                        IF isUnderAttack /\ ~w.attack THEN 0
                                        ELSE Elapsed(@, effectiveDelta),
                                    !.sincePhaseStart =
                                        IF w.metrics.waveStatus # metrics.waveStatus THEN 0
                                        ELSE IF @ < 0 THEN @ ELSE @ + effectiveDelta,
                                    !.sinceScaling =
                                        IF @ < 0 THEN @
                                        ELSE IF @ + effectiveDelta >= SCALING_COOLDOWN_MS
                                        THEN SCALING_COOLDOWN_MS
                                        ELSE @ + effectiveDelta]
        /\ UNCHANGED <<connections, adjacencyMap, simBufferCurrent, simBufferNext, sim,
                       last, pc, ticks>>

\* The nodes runChaosMonkey draws a number for.
Exposed ==
    {nodes[k].id : k \in {j \in 1..Len(nodes) :
                             /\ nodes[j].status = "active"
                             /\ ~nodes[j].isManaged
                             /\ ~StartsWithInternet(nodes[j].id)}}

\* runChaosMonkey; failing are the nodes whose draw is below the failure chance
RunChaosMonkey(failing) ==
    /\ pc = "idle"
    /\ scene.phase = "chaos"
    /\ failing \subseteq Exposed
    /\ nodes' = [k \in 1..Len(nodes) |->
                    IF nodes[k].id \in failing THEN Down(nodes[k]) ELSE nodes[k]]
    /\ emitted' = IF failing # {} THEN Logged("INFRA ALERT", "error") ELSE emitted
    /\ scene' = [scene EXCEPT
                    !.phase = "attack",
                    !.upgraded = IF scene.sinceUpgrade >= UPGRADE_TIME_MS THEN NONE ELSE @,
                    !.sinceUpgrade = IF scene.sinceUpgrade >= UPGRADE_TIME_MS THEN 0 ELSE @]
    /\ UNCHANGED <<connections, adjacencyMap, simBufferCurrent, simBufferNext, metrics,
                   currentBaseTraffic, isUnderAttack, sim, last, pc, ticks>>

\* update, lines 780-815: the attack timers, then the tick accumulator; trigger
\* says whether the draw at line 796 is below the attack chance, rnd is the
\* Math.random() of triggerAttack
UpdateAttack(trigger, rnd) ==
    LET effectiveDelta == scene.effectiveDelta
        timer == scene.attackTimer - effectiveDelta
        w == IF isUnderAttack
             THEN (IF timer <= 0
                   THEN [World EXCEPT !.attack = FALSE,
                                      !.metrics.isUnderAttack = FALSE,
                                      !.metrics.attackTimeLeft = 0,
                                      !.scene.attackTimer = timer,
                                      !.scene.attackCooldownTimer = ATTACK_COOLDOWN_MS,
                                      !.event = Logged("SECURITY: DDoS Attack mitigated",
                                                       "success")]
                   ELSE [World EXCEPT !.scene.attackTimer = timer,
                                      !.metrics.attackTimeLeft = CeilSeconds(timer)])
             ELSE IF scene.attackCooldownTimer > 0
             THEN [World EXCEPT !.scene.attackCooldownTimer = @ - effectiveDelta]
             ELSE IF RGt(currentBaseTraffic, R(2000)) /\ trigger
             THEN TriggerAttack(World, rnd)
             ELSE World
        accumulated == scene.tickAccumulator + effectiveDelta
    IN  /\ pc = "idle"
        /\ scene.phase = "attack"
        /\ metrics' = w.metrics
        /\ isUnderAttack' = w.attack
        /\ emitted' = [(IF w.event # NoEmission THEN w.event ELSE emitted)
                          EXCEPT !.redraw = TRUE]
        /\ scene' = [w.scene EXCEPT !.tickAccumulator = accumulated,
                                    !.phase = IF accumulated >= TICK_RATE
                                              THEN "tick" ELSE "billing",
                                    !.sinceAttackEnd =
                                        IF isUnderAttack /\ ~w.attack THEN 0 ELSE @]
        /\ UNCHANGED <<nodes, connections, adjacencyMap, simBufferCurrent, simBufferNext,
                       currentBaseTraffic, sim, last, pc, ticks>>

\* update while paused (lines 744, 806-809): the block under !isPaused is
\* skipped, the scene is drawn and the handler returns before the accumulators
UpdatePaused(delta) ==
    /\ Between
    /\ scene.isPaused
    /\ emitted' = [NoEmission EXCEPT !.redraw = TRUE]
    /\ UNCHANGED <<nodes, connections, adjacencyMap, simBufferCurrent, simBufferNext,
                   metrics, currentBaseTraffic, isUnderAttack, sim, last, pc, ticks,
                   scene>>

\* setSpeed with the pause flag left as it was
SetSpeedKeepingPause(speed) ==
    /\ Between
    /\ scene' = [scene EXCEPT !.simulationSpeed = speed]
    /\ emitted' = NoEmission
    /\ UNCHANGED <<nodes, connections, adjacencyMap, simBufferCurrent, simBufferNext,
                   metrics, currentBaseTraffic, isUnderAttack, sim, last, pc, ticks>>

\* setSpeed
SetSpeed(speed) ==
    /\ Between
    /\ scene' = [scene EXCEPT !.simulationSpeed = speed, !.isPaused = (speed = 0)]
    /\ emitted' = NoEmission
    /\ UNCHANGED <<nodes, connections, adjacencyMap, simBufferCurrent, simBufferNext,
                   metrics, currentBaseTraffic, isUnderAttack, sim, last, pc, ticks>>

\* runBilling: the operating cost of one node
NodeOpex(node) ==
    LET nodeOpex == IF node.tier # NONE THEN COMPUTE_TIERS[node.tier].opex
                    ELSE IF node.cdnTier # NONE THEN CDN_TIERS[node.cdnTier].opex
                    ELSE NODE_OPEX[node.type]
    IN  IF "serverless_lambda" \in metrics.unlockedTech /\ node.type = COMPUTE
           /\ RLt(node.currentLoad, One)
        THEN 0
        ELSE IF node.type = AUTOSCALING_GROUP /\ node.currentInstances # 0
        THEN nodeOpex * node.currentInstances
        ELSE nodeOpex

\* runBilling
RunBilling(m) ==
    LET totalOpex == RSumSeq([k \in 1..Len(nodes) |-> R(NodeOpex(nodes[k]))])
        slaPenalty == IF RLt(m.uptime, <<999, 10>>) \/ m.p95LatencyMs > 1000
                      THEN (IF RLt(m.uptime, R(95)) THEN SLA_PENALTY_RATE * 5
                            ELSE SLA_PENALTY_RATE)
                      ELSE 0
    IN  [m EXCEPT !.cash = RSub(RAdd(RSub(@, totalOpex), m.revenuePerSec), R(slaPenalty)),
                  !.opexPerSec = totalOpex]

\* update, lines 816-823: the accumulators after the tick, and runBilling
UpdateBilling ==
    LET accumulated == scene.billingAccumulator + scene.effectiveDelta
    IN  /\ pc = "idle"
        /\ scene.phase = "billing"
        /\ metrics' = IF accumulated >= 1000 THEN RunBilling(metrics) ELSE metrics
        /\ scene' = [scene EXCEPT
                        !.tickAccumulator = IF @ >= TICK_RATE THEN @ - TICK_RATE ELSE @,
                        !.billingAccumulator = IF accumulated >= 1000
                                               THEN accumulated - 1000 ELSE accumulated,
                        !.phase = "idle"]
        /\ UNCHANGED <<nodes, connections, adjacencyMap, simBufferCurrent, simBufferNext,
                       currentBaseTraffic, isUnderAttack, sim, last, pc, ticks, emitted>>

-----------------------------------------------------------------------------
(* A running game: frames, settlement passes and upgrades from the         *)
(* property panel.                                                         *)

\* delta of a frame, in ms, and the speeds the game runs at.
Deltas == {100, 1500}
Speeds == {1, 2}
\* The speeds the speed buttons set: pause and the running speeds.
SpeedButtons == {0} \cup Speeds

\* Source -> Compute -> managed SQL primary, the Compute node active or 18.5 s
\* into a repair; Source -> warm enterprise CDN -> Storage.
LifeTopos ==
    {Topo(<<Src, c, NodeData("database-1", DATABASE, NONE, "A", TRUE)>>,
          <<Edge("internet-1", "compute-1"), Edge("compute-1", "database-1")>>)
       : c \in {N("compute-1", COMPUTE),
                [N("compute-1", COMPUTE) EXCEPT !.status = "down",
                                                !.failureTimeLeft = 1500]}}
    \cup {t \in TopoCdn(<<399997, 2>>, {TRUE}) : t.nodes[2].cdnTier = "EDGE_ENTERPRISE"}

\* The tiers an upgrade call names for a node: tiers of the kind of the node.
TiersFor(node) ==
    IF node.type = CDN THEN {"EDGE_BASIC", "EDGE_PRO"}
    ELSE IF node.type = COMPUTE THEN {"T2"}
    ELSE {}

LifecycleInit ==
    /\ \E topo \in LifeTopos :
          /\ nodes = topo.nodes
          /\ connections = topo.edges
          /\ adjacencyMap = rebuildAdjacency(topo.edges)
          /\ simBufferCurrent = Buffers(topo.nodes)
          /\ simBufferNext = Buffers(topo.nodes)
    /\ metrics = [createInitialMetrics EXCEPT !.userSatisfaction = R(70),
                                              !.cash = R(350),
                                              !.unlockedTech = {"managed_db"}]
    /\ currentBaseTraffic = R(10)
    /\ isUnderAttack = FALSE
    /\ sim = NoSim
    /\ last = NoLast
    /\ pc = "idle"
    /\ ticks = 0
    /\ \E speed \in Speeds :
          scene = [NewScene EXCEPT !.simulationSpeed = speed, !.isPaused = FALSE]
    /\ emitted = NoEmission

\* The draws of a frame that starts a wave.
WaveDraws ==
    IF metrics.waveStatus = "peace" /\ metrics.currentWave >= 2 THEN Randoms ELSE {Zero}

LifecycleNext ==
    \/ \E delta \in Deltas, rnd \in WaveDraws, rnd2 \in WaveDraws :
          /\ scene.tickAccumulator + delta * scene.simulationSpeed >= TICK_RATE
                => ticks < Passes
          /\ UpdateNodes(delta, rnd, rnd2)
    \/ \E failing \in SUBSET Exposed : RunChaosMonkey(failing)
    \/ \E trigger \in {RGt(currentBaseTraffic, R(2000)) /\ ~isUnderAttack
                          /\ scene.attackCooldownTimer <= 0, FALSE},
          rnd \in Randoms :
          (trigger \/ rnd = Zero) /\ UpdateAttack(trigger, rnd)
    \/ \E sine \in Sines, rnd \in Randoms : scene.phase = "tick" /\ TickStart(sine, rnd)
    \/ BeginRound
    \/ \E rnds \in Draws : ProcessNode(rnds)
    \/ EndRound
    \/ FinishTick
    \/ UpdateBilling
    \/ \E delta \in Deltas : UpdatePaused(delta)
    \/ \E speed \in SpeedButtons : SetSpeed(speed)
    \/ \E id \in Ids : \E newTier \in TiersFor(nodeDataMap(nodes, id)) :
          ExternalUpgradeNode(id, newTier)

LifecycleSpec == LifecycleInit /\ [][LifecycleNext]_vars

-----------------------------------------------------------------------------
(* A game that keeps running: the browser calls update for every frame, at *)
(* a positive speed, for MaxFrames frames that each run a settlement pass; *)
(* upgrade calls come at any time between two frames.                      *)

\* Number of frames of one behaviour
MaxFrames == 6

\* delta of the frames, in ms: each frame fills the tick accumulator.
RepairDeltas == {1500}

\* Source -> Compute -> managed SQL primary, the Compute node 18.5 s into a repair.
RepairInit ==
    /\ LifecycleInit
    /\ \E k \in 1..Len(nodes) : nodes[k].status = "down"

\* One step of a frame.
Frame ==
    \/ \E delta \in RepairDeltas : ticks < MaxFrames /\ UpdateNodes(delta, Zero, Zero)
    \/ \E failing \in SUBSET Exposed : RunChaosMonkey(failing)
    \/ UpdateAttack(FALSE, Zero)
    \/ scene.phase = "tick" /\ TickStart(Zero, <<1, 2>>)
    \/ BeginRound
    \/ \E rnds \in Draws : ProcessNode(rnds)
    \/ EndRound
    \/ FinishTick
    \/ UpdateBilling

RepairNext ==
    \/ Frame
    \/ \E id \in Ids : \E newTier \in TiersFor(nodeDataMap(nodes, id)) :
          ExternalUpgradeNode(id, newTier)

\* A frame step is possible: the browser has frames left to deliver, or a
\* frame is under way.
FrameEnabled == ~(Between /\ (scene.isPaused \/ ticks >= MaxFrames))

\* The browser keeps delivering frames and a frame that has begun runs to its
\* end: weak fairness of Frame, with the enabling condition of a frame step
\* written as the state predicate FrameEnabled.
FrameFairness == []<>(~FrameEnabled) \/ []<><<Frame>>_vars

RepairSpec == RepairInit /\ [][RepairNext]_vars /\ FrameFairness

-----------------------------------------------------------------------------
(* Properties of a running game.                                           *)

\* C14: an upgrade that is paid for takes the capex of the new tier from cash
\* and leaves the node booting with upgradeProgress 0 and the new tier; while
\* less than 3000 ms of scaled time have passed since, the node loop leaves it
\* booting and a settlement pass fails all its input with a 500; once 3000 ms
\* have passed the node loop leaves it active with the new tier.
C14_UpgradeBootsThenActivates ==
    [][ /\ \A id \in Ids :
              \A newTier \in TiersFor(nodeDataMap(nodes, id)) :
                 LET node == nodeDataMap(nodes, id)
                     cost == UpgradeCost(node, newTier)
                 IN  (ExternalUpgradeNode(id, newTier) /\ RGe(metrics.cash, R(cost))) =>
                        /\ metrics'.cash = RSub(metrics.cash, R(cost))
                        /\ nodeDataMap(nodes', id).status = "booting"
                        /\ nodeDataMap(nodes', id).upgradeProgress = Zero
                        /\ newTier \in {nodeDataMap(nodes', id).tier,
                                        nodeDataMap(nodes', id).cdnTier}
        /\ (scene'.phase = "chaos" /\ scene'.upgraded # NONE) =>
              nodeDataMap(nodes', scene'.upgraded).status =
                 IF scene'.sinceUpgrade < UPGRADE_TIME_MS THEN "booting" ELSE "active"
        /\ (pc = "node" /\ last' # last /\ last'.id = scene.upgraded) =>
              /\ last'.outcome \in {"gated", "ignored"}
              /\ last'.outcome = "ignored" => last'.totalInput = Zero
              /\ metrics'.responseCodes["500"] =
                    RAdd(metrics.responseCodes["500"], last'.totalInput) ]_vars

\* C21: a frame of update() that starts with the simulation paused (speed 0)
\* changes none of the node table (status, failureTimeLeft, upgradeProgress,
\* scalingCooldown), the wave and attack timers, the tick and billing
\* accumulators, the buffers, the metrics and the base traffic, and starts
\* neither a settlement pass nor a billing pass.
C21_PausedFrameChangesNothing ==
    [][ (/\ Between
         /\ scene.simulationSpeed = 0
         /\ \E delta \in Deltas :
               \/ UpdatePaused(delta)
               \/ \E rnd \in Randoms, rnd2 \in Randoms : UpdateNodes(delta, rnd, rnd2)) =>
           /\ UNCHANGED <<nodes, connections, adjacencyMap, simBufferCurrent,
                          simBufferNext, metrics, currentBaseTraffic, isUnderAttack,
                          sim, last, pc, ticks, scene>>
           /\ scene'.phase = "idle" ]_vars

\* The simulation was paused after a settlement pass and a frame has been
\* drawn since, with a node still under repair and the accumulators part-filled.
C21_Witness ==
    /\ Between
    /\ scene.isPaused
    /\ scene.simulationSpeed = 0
    /\ emitted = [NoEmission EXCEPT !.redraw = TRUE]
    /\ ticks > 0
    /\ scene.billingAccumulator > 0
    /\ \E k \in 1..Len(nodes) : nodes[k].failureTimeLeft > 0

\* C25: in every step, for every node: a node that is down does not become
\* active; a node that is down becomes booting only with failureTimeLeft
\* brought to 0 and upgradeProgress set to 0; a node enters booting with
\* upgradeProgress 0, its upgradeProgress grows only by the scaled time of a
\* frame over 3000 ms, and it becomes active only in a frame that brings
\* upgradeProgress to 100 or more.
C25_StatusOrder ==
    [][ \A k \in 1..Len(nodes) :
           LET before == nodes[k]
               after == nodes'[k]
               grown == RAdd(before.upgradeProgress,
                             RMul(Frac(scene'.effectiveDelta, UPGRADE_TIME_MS), R(100)))
           IN  (Len(nodes') = Len(nodes) /\ after.id = before.id) =>
                  /\ before.status = "down" => after.status # "active"
                  /\ (before.status = "down" /\ after.status = "booting") =>
                        /\ before.failureTimeLeft > 0
                        /\ after.failureTimeLeft = 0
                        /\ after.upgradeProgress = Zero
                  /\ (before.status # "booting" /\ after.status = "booting") =>
                        after.upgradeProgress = Zero
                  /\ (before.status = "booting" /\ after.status = "booting") =>
                        after.upgradeProgress \in {before.upgradeProgress, Zero, grown}
                  /\ (before.status = "booting" /\ after.status = "active") =>
                        /\ scene'.phase = "chaos"
                        /\ RGe(grown, R(100)) ]_vars

\* Every node is active.
AllActive == \A k \in 1..Len(nodes) : nodes[k].status = "active"

\* C26: no node is ever booting with isUpgrading false, or down with
\* failureTimeLeft 0; and while the frames keep coming at a positive speed, a
\* game that starts with a node under repair gets to a state in which every
\* node is active, whatever upgrade calls are made on the way, on the node
\* under repair included.
C26_RepairCompletes ==
    /\ [](\A k \in 1..Len(nodes) :
            /\ nodes[k].status = "booting" => nodes[k].isUpgrading
            /\ nodes[k].status = "down" => nodes[k].failureTimeLeft > 0)
    /\ (ticks = 0 /\ ~AllActive) ~> AllActive

\* The repair of a node that was upgraded while it was down has run out: the
\* node is rebooting with upgradeProgress 0, some scaled time after the upgrade.
C26_Witness ==
    /\ Between
    /\ scene.upgraded # NONE
    /\ scene.sinceUpgrade > 0
    /\ LET node == nodeDataMap(nodes, scene.upgraded)
       IN  /\ node.status = "booting"
           /\ node.isUpgrading
           /\ node.failureTimeLeft = 0
           /\ node.upgradeProgress = Zero

C19_OnlyExposedNodesFail ==
    [][ \A k \in 1..Len(nodes') :
           /\ (nodes'[k].isManaged \/ nodes'[k].type = INTERNET) => nodes'[k].status # "down"
           /\ (k <= Len(nodes) /\ nodes[k].id = nodes'[k].id
               /\ nodes[k].status # "down" /\ nodes'[k].status = "down") =>
                 /\ ~nodes[k].isManaged
                 /\ nodes[k].type # INTERNET
                 /\ nodes[k].status = "active"
                 /\ nodes'[k].failureTimeLeft = REPAIR_TIME_MS ]_vars

\* C20: in every state a node with failureTimeLeft > 0 is down, whatever the
\* order of frames and upgrade calls.
C20_RepairingMeansDown ==
    \A k \in 1..Len(nodes) : nodes[k].failureTimeLeft > 0 => nodes[k].status = "down"

-----------------------------------------------------------------------------
(* A game in its later waves: frames at a positive speed or paused, the    *)
(* speed buttons, and the draws of startWave, of the attack roll and of    *)
(* triggerAttack.                                                          *)

\* Number of unpaused frames of one behaviour
MaxWaveFrames == 4

\* delta of the frames, in ms: each frame fills the tick accumulator.
WaveDeltas == {1500}

\* The wave the game is in, with the traffic it has grown to: the first
\* peace phase, the second wave, the fourth wave.
WaveStages ==
    {[wave |-> 0, base |-> R(100)], [wave |-> 2, base |-> R(100)],
     [wave |-> 4, base |-> R(2500)]}

\* The time left of the running wave phase and of a running attack, in ms.
TimesLeft == {3000, 4500}

\* Source -> Compute -> managed SQL primary, in a peace phase or in a wave
\* that is about to end; from the fourth wave on, under an attack or not.
WaveInit ==
    /\ \E topo \in LifeTopos :
          /\ \A k \in 1..Len(topo.nodes) : topo.nodes[k].status = "active"
          /\ \E k \in 1..Len(topo.nodes) : topo.nodes[k].type = COMPUTE
          /\ nodes = topo.nodes
          /\ connections = topo.edges
          /\ adjacencyMap = rebuildAdjacency(topo.edges)
          /\ simBufferCurrent = Buffers(topo.nodes)
          /\ simBufferNext = Buffers(topo.nodes)
    /\ \E stage \in WaveStages, status \in {"peace", "active"}, left \in TimesLeft,
          attackLeft \in {0} \cup TimesLeft, speed \in Speeds :
          /\ status = "active" => stage.wave > 0
          /\ attackLeft > 0 => stage.wave > 2
          /\ metrics = [createInitialMetrics EXCEPT
                           !.userSatisfaction = R(70),
                           !.cash = R(350),
                           !.unlockedTech = {"managed_db"},
                           !.currentWave = stage.wave,
                           !.waveStatus = status,
                           !.waveCountdown = CeilSeconds(left),
                           !.isUnderAttack = (attackLeft > 0),
                           !.attackTimeLeft = CeilSeconds(attackLeft)]
          /\ currentBaseTraffic = stage.base
          /\ isUnderAttack = (attackLeft > 0)
          /\ scene = [NewScene EXCEPT
                         !.simulationSpeed = speed,
                         !.isPaused = FALSE,
                         !.waveCountdownTimer = left,
                         !.currentWaveVolume =
                             IF status = "active"
                             THEN RMul(R(500), RPow(<<3, 2>>, stage.wave))
                             ELSE IF stage.wave = 0 THEN Zero ELSE R(100),
                         !.attackTimer = attackLeft,
                         !.sincePhaseStart = -1]
    /\ sim = NoSim
    /\ last = NoLast
    /\ pc = "idle"
    /\ ticks = 0
    /\ emitted = NoEmission

WaveNext ==
    \/ \E delta \in WaveDeltas, rnd \in Randoms, rnd2 \in Randoms :
          /\ ticks < MaxWaveFrames
          /\ UpdateNodes(delta, rnd, rnd2)
    \/ RunChaosMonkey({})
    \/ \E trigger \in BOOLEAN, rnd \in Randoms : UpdateAttack(trigger, rnd)
    \/ scene.phase = "tick" /\ TickStart(Zero, <<1, 2>>)
    \/ BeginRound
    \/ \E rnds \in Draws : ProcessNode(rnds)
    \/ EndRound
    \/ FinishTick
    \/ UpdateBilling
    \/ \E delta \in WaveDeltas : UpdatePaused(delta)
    \/ \E speed \in SpeedButtons : SetSpeed(speed)

WaveSpec == WaveInit /\ [][WaveNext]_vars

-----------------------------------------------------------------------------
(* A game that runs through a peace phase and a wave: frames at speed 2,   *)
(* the pause button, and the draws of startWave.                           *)

\* Number of unpaused frames of one behaviour
MaxCycleFrames == 27

\* Pause and the speed the game runs at.
CycleSpeeds == {0, 2}

\* The frame in which the first or the second wave has just ended, after
\* handleWaveLogic and the node loop: Source -> Compute -> managed SQL primary.
CycleInit ==
    /\ \E topo \in LifeTopos :
          /\ \A k \in 1..Len(topo.nodes) : topo.nodes[k].status = "active"
          /\ \E k \in 1..Len(topo.nodes) : topo.nodes[k].type = COMPUTE
          /\ nodes = topo.nodes
          /\ connections = topo.edges
          /\ adjacencyMap = rebuildAdjacency(topo.edges)
          /\ simBufferCurrent = Buffers(topo.nodes)
          /\ simBufferNext = Buffers(topo.nodes)
    /\ \E wave \in {1, 2} :
          metrics = [createInitialMetrics EXCEPT !.userSatisfaction = R(70),
                                                 !.cash = R(350),
                                                 !.unlockedTech = {"managed_db"},
                                                 !.currentWave = wave,
                                                 !.waveStatus = "peace",
                                                 !.waveCountdown = 0]
    /\ currentBaseTraffic = R(500)
    /\ isUnderAttack = FALSE
    /\ scene = [NewScene EXCEPT !.simulationSpeed = 2,
                                !.isPaused = FALSE,
                                !.waveCountdownTimer = 30000,
                                !.currentWaveVolume = R(100),
                                !.phase = "chaos",
                                !.effectiveDelta = 3000]
    /\ sim = NoSim
    /\ last = NoLast
    /\ pc = "idle"
    /\ ticks = 0
    /\ emitted = Logged("WAVE COMPLETED", "success")

CycleNext ==
    \/ \E delta \in WaveDeltas, rnd \in WaveDraws, rnd2 \in WaveDraws :
          /\ ticks < MaxCycleFrames
          /\ UpdateNodes(delta, rnd, rnd2)
    \/ RunChaosMonkey({})
    \/ UpdateAttack(FALSE, Zero)
    \/ scene.phase = "tick" /\ TickStart(Zero, <<1, 2>>)
    \/ BeginRound
    \/ \E rnds \in Draws : ProcessNode(rnds)
    \/ EndRound
    \/ FinishTick
    \/ UpdateBilling
    \/ \E delta \in WaveDeltas : UpdatePaused(delta)
    \/ \E speed \in CycleSpeeds : SetSpeed(speed)

CycleSpec == CycleInit /\ [][CycleNext]_vars

\* A DDoS episode starts, ends.
AttackStarts == ~isUnderAttack /\ isUnderAttack'
AttackEnds == isUnderAttack /\ ~isUnderAttack'

\* C35: after a DDoS episode has ended, by its timer or by the end of a wave,
\* no new episode starts before 45 s of scaled time have elapsed, neither by
\* the roll of update nor by the start of a wave.
C35_CooldownBetweenEpisodes ==
    [][ AttackStarts =>
           \/ scene'.sinceAttackEnd < 0
           \/ scene'.sinceAttackEnd >= ATTACK_COOLDOWN_MS ]_vars

\* The length of a wave phase, in ms of scaled time (lines 859 and 874).
PhaseLength(status) == IF status = "peace" THEN 30000 ELSE 45000

\* The wave phase changes.
PhaseChanges == metrics'.waveStatus # metrics.waveStatus

\* handleWaveLogic runs: the first step of an unpaused frame.
WaveLogicStep == Between /\ ~scene.isPaused /\ scene'.phase = "chaos"

\* C36: the wave phase only changes from peace to active and from active to
\* peace, and only in an unpaused frame; a peace phase ends in the first frame
\* in which 30 s, an active phase in the first frame in which 45 s of scaled
\* unpaused time have passed since it began; currentWave grows by 1 where a
\* wave starts and changes nowhere else; the target volume of a wave that
\* starts is 500 x 1.5^currentWave; and a wave start triggers a DDoS episode
\* only if the number of the wave is greater than 2.
C36_WavesAlternate ==
    [][ LET status == metrics.waveStatus
            lasted == scene.sincePhaseStart + scene'.effectiveDelta
        IN  /\ metrics.waveStatus \in {"peace", "active"}
            /\ PhaseChanges =>
                  /\ WaveLogicStep
                  /\ metrics'.waveStatus = (IF status = "peace" THEN "active" ELSE "peace")
                  /\ scene.sincePhaseStart < PhaseLength(status)
                  /\ lasted >= PhaseLength(status)
                  /\ metrics'.currentWave =
                        metrics.currentWave + (IF status = "peace" THEN 1 ELSE 0)
                  /\ status = "peace" =>
                        scene'.currentWaveVolume =
                           RMul(R(500), RPow(<<3, 2>>, metrics'.currentWave))
            /\ ~PhaseChanges =>
                  /\ metrics'.currentWave = metrics.currentWave
                  /\ scene'.sincePhaseStart < PhaseLength(status)
                  /\ ~WaveLogicStep => scene'.sincePhaseStart = scene.sincePhaseStart
            /\ (WaveLogicStep /\ scene'.attackTimer # scene.attackTimer) =>
                  /\ status = "peace" /\ PhaseChanges
                  /\ metrics'.currentWave > 2 ]_vars

\* The third wave has started with a DDoS episode after a peace phase of 30 s
\* and has just ended after its 45 s, in a frame before which the speed was
\* set; the game has been paused since.
C36_Witness ==
    /\ metrics.currentWave = 3
    /\ metrics.waveStatus = "peace"
    /\ scene.sincePhaseStart = 0
    /\ scene.attackCooldownTimer > 0
    /\ scene.isPaused

-----------------------------------------------------------------------------
(* A game with an AutoscalingGroup: frames at speed 1 and 2.               *)

\* Number of frames of one behaviour
MaxScalingFrames == 11

\* Source -> AutoscalingGroup -> managed SQL primary, the group at 1, 3 or 5
\* instances with no cooldown running, under light or heavy traffic.
ScalingInit ==
    /\ \E instances \in {1, 3, 5}, base \in {R(10), R(500)}, speed \in Speeds :
          /\ nodes = <<Src,
                       [N("autoscaling_group-1", AUTOSCALING_GROUP)
                           EXCEPT !.currentInstances = instances],
                       NodeData("database-1", DATABASE, NONE, "A", TRUE)>>
          /\ currentBaseTraffic = base
          /\ scene = [NewScene EXCEPT !.simulationSpeed = speed, !.isPaused = FALSE]
    /\ connections = <<Edge("internet-1", "autoscaling_group-1"),
                       Edge("autoscaling_group-1", "database-1")>>
    /\ adjacencyMap = rebuildAdjacency(connections)
    /\ simBufferCurrent = Buffers(nodes)
    /\ simBufferNext = Buffers(nodes)
    /\ metrics = [createInitialMetrics EXCEPT !.userSatisfaction = R(70),
                                              !.cash = R(350),
                                              !.unlockedTech = {"managed_db"}]
    /\ isUnderAttack = FALSE
    /\ sim = NoSim
    /\ last = NoLast
    /\ pc = "idle"
    /\ ticks = 0
    /\ emitted = NoEmission

ScalingNext ==
    \/ \E delta \in WaveDeltas : ticks < MaxScalingFrames /\ UpdateNodes(delta, Zero, Zero)
    \/ RunChaosMonkey({})
    \/ UpdateAttack(FALSE, Zero)
    \/ scene.phase = "tick" /\ TickStart(Zero, <<1, 2>>)
    \/ BeginRound
    \/ \E rnds \in Draws : ProcessNode(rnds)
    \/ EndRound
    \/ FinishTick
    \/ UpdateBilling
    \/ \E speed \in Speeds : SetSpeed(speed)

ScalingSpec == ScalingInit /\ [][ScalingNext]_vars

\* C37: the number of instances of every AutoscalingGroup is within
\* [minInstances, maxInstances]; it changes by 1 at a time, upwards only at a
\* load above 85 and downwards only at a load below 30; and two changes are at
\* least 15 s of scaled time apart.
C37_ScalingWithinLimits ==
    [][ \A k \in 1..Len(nodes) :
           (k <= Len(nodes') /\ nodes'[k].id = nodes[k].id
            /\ nodes[k].type = AUTOSCALING_GROUP) =>
              LET before == nodes[k]
                  after == nodes'[k]
              IN  /\ before.currentInstances \in before.minInstances..before.maxInstances
                  /\ after.currentInstances \in after.minInstances..after.maxInstances
                  /\ after.currentInstances # before.currentInstances =>
                        /\ after.currentInstances \in {before.currentInstances - 1,
                                                       before.currentInstances + 1}
                        /\ after.currentInstances > before.currentInstances =>
                              RGt(before.currentLoad, R(85))
                        /\ after.currentInstances < before.currentInstances =>
                              RLt(before.currentLoad, R(30))
                        /\ \/ scene.sinceScaling < 0
                           \/ scene.sinceScaling >= SCALING_COOLDOWN_MS ]_vars

\* An AutoscalingGroup has just changed its number of instances for the second
\* time, 15 s after the first.
C37_Witness ==
    /\ scene.sinceScaling = 0
    /\ last.step = sim.step
    /\ \E k \in 1..Len(nodes) :
          /\ nodes[k].type = AUTOSCALING_GROUP
          /\ last.id = nodes[k].id
          /\ nodes[k].scalingCooldown = SCALING_COOLDOWN_MS
          /\ nodes[k].currentInstances = 3
    /\ ticks >= 5

-----------------------------------------------------------------------------
(* Wiring by pointer: clicks on nodes, drags from a connection port, and   *)
(* the calls of the panel, in any order.                                   *)

\* toggleConnection, called from a pointer handler
Connect(sourceId, targetId) ==
    LET exists == FindEdge(connections, sourceId, targetId)
    IN  /\ IF exists # 0
           THEN /\ connections' = RemoveAt(connections, exists)
                /\ emitted' = Logged("Link removed", "warn")
           ELSE /\ connections' = Append(connections, Edge(sourceId, targetId))
                /\ emitted' = Logged("Link established", "success")
        /\ adjacencyMap' = rebuildAdjacency(connections')

\* handleNodeClick on the node nodeId; isConnecting is shiftKey || isConnectionMode
HandleNodeClick(nodeId, isConnecting) ==
    /\ Between
    /\ HasNode(nodes, nodeId)
    /\ IF isConnecting
       THEN IF scene.connectingNodeId = NONE
            THEN /\ scene' = [scene EXCEPT !.connectingNodeId = nodeId]
                 /\ emitted' = NoEmission
                 /\ UNCHANGED <<connections, adjacencyMap>>
            ELSE /\ IF scene.connectingNodeId # nodeId
                    THEN Connect(scene.connectingNodeId, nodeId)
                    ELSE /\ emitted' = NoEmission
                         /\ UNCHANGED <<connections, adjacencyMap>>
                 /\ scene' = [scene EXCEPT !.connectingNodeId = NONE]
       ELSE /\ scene' = [scene EXCEPT !.connectingNodeId = NONE, !.selectedNodeId = nodeId]
            /\ emitted' = [NoEmission EXCEPT !.nodeSelect = TRUE]
            /\ UNCHANGED <<connections, adjacencyMap>>
    /\ UNCHANGED <<nodes, simBufferCurrent, simBufferNext, metrics, currentBaseTraffic,
                   isUnderAttack, sim, last, pc, ticks>>

\* pointerdown on the connection port of the node id (lines 598-601)
PortPointerDown(id) ==
    /\ Between
    /\ HasNode(nodes, id)
    /\ scene' = [scene EXCEPT !.connectingNodeId = id]
    /\ emitted' = NoEmission
    /\ UNCHANGED <<nodes, connections, adjacencyMap, simBufferCurrent, simBufferNext,
                   metrics, currentBaseTraffic, isUnderAttack, sim, last, pc, ticks>>

\* handlePointerUp; hit is the node under the pointer, NONE over the background
HandlePointerUp(hit) ==
    /\ Between
    /\ hit # NONE => HasNode(nodes, hit)
    /\ IF scene.connectingNodeId # NONE
       THEN /\ IF hit # NONE /\ hit # scene.connectingNodeId
               THEN Connect(scene.connectingNodeId, hit)
               ELSE /\ emitted' = NoEmission
                    /\ UNCHANGED <<connections, adjacencyMap>>
            /\ scene' = [scene EXCEPT !.connectingNodeId = NONE]
       ELSE /\ emitted' = NoEmission
            /\ UNCHANGED <<connections, adjacencyMap, scene>>
    /\ UNCHANGED <<nodes, simBufferCurrent, simBufferNext, metrics, currentBaseTraffic,
                   isUnderAttack, sim, last, pc, ticks>>

\* The Source, a Compute node and a SQL database, not wired yet.
WiringInit ==
    /\ nodes = <<NodeData("internet-1", INTERNET, NONE, AzOf(100), FALSE),
                 N("compute-1", COMPUTE), N("database-1", DATABASE)>>
    /\ connections = <<>>
    /\ adjacencyMap = rebuildAdjacency(connections)
    /\ simBufferCurrent = Buffers(nodes)
    /\ simBufferNext = Buffers(nodes)
    /\ metrics = createInitialMetrics
    /\ currentBaseTraffic = R(100)
    /\ isUnderAttack = FALSE
    /\ sim = NoSim
    /\ last = NoLast
    /\ pc = "idle"
    /\ ticks = 0
    /\ scene = NewScene
    /\ emitted = NoEmission

\* A pointer handler that finds connectingNodeId set and the node target under
\* the pointer has room for the edge it draws.
RoomFor(target) ==
    \/ Len(connections) < MaxEdges
    \/ scene.connectingNodeId \in {NONE, target}
    \/ FindEdge(connections, scene.connectingNodeId, target) # 0

WiringNext ==
    \/ Reset
    \/ \E id \in Ids, isConnecting \in BOOLEAN :
          (isConnecting => RoomFor(id)) /\ HandleNodeClick(id, isConnecting)
    \/ \E id \in Ids : PortPointerDown(id)
    \/ \E hit \in Ids \cup {NONE} : RoomFor(hit) /\ HandlePointerUp(hit)
    \/ \E id \in Ids : ExternalDeleteNode(id)
    \/ \E s \in Ids, t \in Ids : ExternalDisconnect(s, t)

WiringSpec == WiringInit /\ [][WiringNext]_vars

\* C39: both ends of every edge are ids of nodes that exist and no edge leads
\* from a node to itself, after any sequence of node clicks, port drags,
\* externalDeleteNode, externalDisconnect and reset.
C39_EdgesReferToNodes ==
    \A k \in 1..Len(connections) :
       /\ HasNode(nodes, connections[k].sourceId)
       /\ HasNode(nodes, connections[k].targetId)
       /\ connections[k].sourceId # connections[k].targetId

====
